---- MODULE Spec2Model ----
(***************************************************************************)
(* Verification model of the FreakSlots backend: the response cache layer  *)
(* of server.js (home cache, in-flight coalescing, quota circuit breaker,  *)
(* game-by-id cache, cache invalidation by the mutating endpoints), the    *)
(* versioned category rebuild and its reader, the broadcast state machine  *)
(* of telegramBot.js, the page loop of runSync and the pinned-first merge, *)
(* normalizeGame, upsertGames and the sync watermark.                      *)
(*                                                                         *)
(* Each subsystem has its own specification over its own variables:        *)
(*   Spec       response cache layer (server.js)                           *)
(*   SpecInv    the same with the mutating endpoints and game-by-id reads  *)
(*   SpecGame   GET /api/games/:id alone                                   *)
(*   SpecCat    rebuildCategoriesIndex and the activeRunId reader          *)
(*   SpecBot    broadcast draft state machine                              *)
(*   SpecSync   runSync page loop                                          *)
(*   SpecMerge  mergePinnedFirst as used by GET /api/home                  *)
(*   SpecNorm   normalizeGame over raw upstream records                    *)
(*   SpecUpsert upsertGames, chunk by chunk                                *)
(*   SpecWatermark    runSync and seedNewestPublishedGames over midnight   *)
(*   SpecIncremental  filtered and unfiltered runSync over one upstream    *)
(*   SpecSyncFair     runSync whose awaited calls all settle               *)
(*   SpecFanout       the bot with one more update taken while awaiting    *)
(*   SpecRead         the read endpoints alone, failures and timeouts      *)
(*   SpecAuth         the mutating endpoints under any SYNC_SECRET         *)
(*   SpecAdmins       the bot's admin gate                                 *)
(*   SpecReset        POST /api/admin/reset beside runSync                 *)
(*   SpecPull         POST /api/admin/best/pull and the readers            *)
(*   SpecWriters      runSync, the seed and the pull, record by record     *)
(***************************************************************************)
EXTENDS Integers, Sequences, FiniteSets, Bags, TLC

VARIABLES
    \* ---- response cache layer (server.js) ----
    now,              \* Date.now(), in ms
    ticks,            \* number of clock advances so far
    homeCache,        \* null or { ts, data }
    homeInFlight,     \* null (0) or the id of the promise stored in homeInFlight
    homeCircuitUntil, \* skip Firestore until this time
    comps,            \* the home computations started so far, by id
    hreq,             \* GET /api/home requests awaiting, per request slot
    hout,             \* the last answer(s) sent by the home handler
    gameCache,        \* id -> null or { ts, data }
    greq,             \* GET /api/games/:id requests awaiting, per request slot
    gout,             \* the last answer sent by the game handler
    storeVer,         \* version of the games/curation documents in Firestore
    mut,              \* the mutating admin request in progress, if any
    mout,             \* the mutating request that has just been answered 200, if any
    storageCalls,     \* number of Firestore reads issued by the read endpoints
    lastQuotaFailAt,  \* time of the last quota-classified home failure (-1: none)
    gameReads,        \* number of games/{id} document reads issued so far
    syncSecret,       \* process.env.SYNC_SECRET ("undefined": not set)
    \* ---- category rebuild ----
    catStore,         \* category id -> whether categories/{id} exists
    catActive,        \* category id -> activeRunId of categories/{id} (0: unset)
    runItems,         \* category id -> run id -> documents of runs/{run}/items
    rb,               \* the rebuildCategoriesIndex call in progress, if any
    rd,               \* the reader (GET /api/home, activeRunId version) in progress
    rdout,            \* the item list the reader has just obtained, if any
    nextRun,          \* the next value of String(Date.now()) used as a run id
    computed,         \* run id -> the buckets that run's rebuild computed
    prevActive,       \* category id -> the run active when the rebuild began
    \* ---- broadcast bot ----
    broadcastState,   \* chat id -> { step, payload } (step "idle": no entry)
    tasks,            \* the handler invocations that are awaiting (a bag)
    users,            \* ids of the documents of the users collection
    pendingCap,       \* how many handler invocations may be awaiting at once
    chats,            \* the chats that send updates to the bot
    inbox,            \* the messages those chats send
    lastSend,         \* the Telegram send that has just settled, if any
    lastUpdate,       \* the update that has just been processed, if any
    \* ---- runSync ----
    upstream,         \* the pages the upstream API serves, in order
    maxSyncPages,     \* MAX_SYNC_PAGES, from the environment
    sy,               \* the runSync call: position and local variables
    narrowed,         \* the pages served under an updated_at filter, by date
    beyond,           \* the page served past the end of a listing
    rebuildCategories, \* REBUILD_CATEGORIES, from the environment
    lastUpdatedAtDate, \* meta/sync.lastUpdatedAtDate, the sync watermark
    today,            \* the current UTC date
    gamesStore,       \* the games collection, by page of the listing
    runsLeft,         \* runSync calls still to come
    pagesByFilter,    \* pages fetched by the last finished run, by filter
    sd,               \* the seedNewestPublishedGames call
    seedsLeft,        \* seedNewestPublishedGames calls still to come
    rs,               \* the POST /api/admin/reset request, if any
    \* ---- pinned-first merge ----
    mg,               \* the best list of one home computation: inputs and locals
    \* ---- normalizeGame ----
    ng,               \* one call of normalizeGame: the raw record and the result
    \* ---- upsertGames ----
    gamesColl,        \* the documents of the games collection
    up,               \* the upsertGames call: position and local variables
    upNow,            \* new Date() as upsertGames sees it
    \* ---- best-games pull ----
    pl,               \* the POST /api/admin/best-games/pull request, if any
    pullUpstream,     \* the pages of raw games the upstream serves to the pull
    pullStore,        \* the games documents, as the pull sees them
    bestPinnedIds,    \* meta/curation.bestPinnedIds
    wr                \* a run of runSync or of the seed, record by record

cacheVars == <<now, ticks, homeCache, homeInFlight, homeCircuitUntil, comps, hreq, hout,
               gameCache, greq, gout, storeVer, mut, mout, storageCalls,
               lastQuotaFailAt, gameReads>>

\* The process environment of the server: no handler assigns it.
envVars   == <<syncSecret>>

catVars   == <<catStore, catActive, runItems, rb, rd, rdout, nextRun, computed, prevActive>>

botVars   == <<broadcastState, tasks, users, pendingCap, chats, inbox, lastSend, lastUpdate>>

syncVars  == <<upstream, maxSyncPages, sy, narrowed, beyond, rebuildCategories,
               lastUpdatedAtDate, today, gamesStore, runsLeft, pagesByFilter, sd, seedsLeft,
               rs>>

mergeVars == <<mg>>

normVars  == <<ng>>

upsertVars == <<gamesColl, up, upNow>>

pullVars  == <<pl, pullUpstream, pullStore, bestPinnedIds, wr>>

vars      == <<envVars, cacheVars, catVars, botVars, syncVars, mergeVars, normVars, upsertVars,
               pullVars>>

otherThanCache == <<envVars, pullVars, catVars, botVars, syncVars, mergeVars, normVars, upsertVars>>
otherThanCat   == <<envVars, pullVars, cacheVars, botVars, syncVars, mergeVars, normVars, upsertVars>>
otherThanBot   == <<envVars, pullVars, cacheVars, catVars, syncVars, mergeVars, normVars, upsertVars>>
otherThanSync  == <<envVars, pullVars, cacheVars, catVars, botVars, mergeVars, normVars, upsertVars>>
otherThanMerge == <<envVars, pullVars, cacheVars, catVars, botVars, syncVars, normVars, upsertVars>>
otherThanNorm  == <<envVars, pullVars, cacheVars, catVars, botVars, syncVars, mergeVars, upsertVars>>
otherThanUpsert == <<envVars, pullVars, cacheVars, catVars, botVars, syncVars, mergeVars, normVars>>

(***************************************************************************)
(* Bounds of the model.                                                    *)
(***************************************************************************)
MaxTicks    == 2   \* clock advances per behaviour
MaxComps    == 2   \* home computations started per behaviour
MaxHomeReqs == 2   \* concurrent GET /api/home requests
MaxWrites   == 1   \* catalog writes per behaviour
MaxGameReads == 2  \* games/{id} reads per behaviour
MaxGameReqs == 2   \* concurrent GET /api/games/:id requests
MaxRuns     == 2   \* category rebuilds (run ids) per behaviour
MaxPending  == 1   \* handler invocations awaiting at one time
MaxPages    == 3   \* pages the upstream API holds
MaxDocs     == 3   \* enabled games a home computation loads
MaxPinned   == 2   \* entries of the curated pinned id list
MaxLimit    == 3   \* limit passed to mergePinnedFirst
MaxBatch    == 2   \* records in one upsertGames call
MaxDay      == 2   \* UTC dates a behaviour spans
MaxSyncRuns == 2   \* runSync calls per behaviour

(***************************************************************************)
(* Program constants.                                                      *)
(***************************************************************************)
HOME_CACHE_TTL_MS   == 600000
GAME_CACHE_TTL_MS   == 600000
HOME_COOLDOWN_MS    == 60000
HOME_TIMEOUT_MS     == 2500

\* The clock advances by one of these amounts (ms): below the waiter timeout
\* is not needed, so: the timeout, the cooldown and the TTL.
TickSteps == {HOME_TIMEOUT_MS, HOME_COOLDOWN_MS, HOME_CACHE_TTL_MS}

NoCache == [ts |-> -1, data |-> -1, pre |-> FALSE]
NoData  == -1

\* An HTTP answer: status, the data served (NoData when an error body), the
\* error text (empty when data). src names the branch that answered.
Resp(st, data, err, src) == [st |-> st, data |-> data, err |-> err, src |-> src]
NoResp == Resp(0, NoData, "", "")

IdleReq == [pc |-> "idle", comp |-> 0, start |-> 0]
\* The mutating request in progress, and the one just answered 200.
IdleMut == [pc |-> "idle", kind |-> "none", wrote |-> FALSE]
NoMut   == [kind |-> "none", wrote |-> FALSE, st |-> 0]
\* An answer event of the home handler: the requests answered, and the answer.
NoOut == [to |-> {}, resp |-> NoResp]

HomeReqs == 1..MaxHomeReqs
GameReqs == 1..MaxGameReqs
GameIds  == {"g1"}
\* Messages of the errors a Firestore read can throw.
StorageErrors == {"RESOURCE_EXHAUSTED", "UNAVAILABLE"}
MutKinds == {"sync", "reset", "pull"}

(***************************************************************************)
(* Response cache layer: helpers.                                          *)
(***************************************************************************)
isQuotaError_any(e) == TRUE

\* server.js:398-401  the message includes RESOURCE_EXHAUSTED or Quota exceeded
isQuotaError(e) == e \in {"RESOURCE_EXHAUSTED", "Quota exceeded"}

\* server.js:565  homeCache && Date.now() - homeCache.ts < HOME_CACHE_TTL_MS
homeFresh == homeCache # NoCache /\ now - homeCache.ts < HOME_CACHE_TTL_MS

circuitOpen_latched == homeCircuitUntil > 0

circuitOpen_never == FALSE

\* server.js:570  Date.now() < homeCircuitUntil
circuitOpen == now < homeCircuitUntil

needsNewComputation_always == TRUE

\* server.js:576  !homeInFlight
needsNewComputation == homeInFlight = 0

\* server.js:571-572  the answer while the circuit is open
circuitAnswer ==
    IF homeCache # NoCache
    THEN Resp(200, homeCache.data, "", "circuit")
    ELSE Resp(503, NoData, "Temporarily unavailable", "circuit")

\* server.js:651-657  the catch block of the home handler
homeCatch(e) ==
    IF isQuotaError(e) /\ homeCache # NoCache
    THEN Resp(200, homeCache.data, "", "stale")
    ELSE Resp(503, NoData, e, "error")

\* The requests awaiting withTimeout(p) for the promise p of computation c.
Waiters(c) == {r \in HomeReqs : hreq[r].pc = "waiting" /\ hreq[r].comp = c}

Pending(c) == comps[c].pc \in {"games", "pinned"}
PendingComps == {c \in 1..Len(comps) : Pending(c)}

Waiting(c) == [pc |-> "waiting", comp |-> c, start |-> now]

\* homeCache = null while computations are pending: inv records, for a
\* computation whose games query has returned, that the home cache was
\* invalidated after that read (the code keeps no such record).
afterInvalidation ==
    [c \in 1..Len(comps) |->
        IF comps[c].pc = "pinned" THEN [comps[c] EXCEPT !.inv = TRUE] ELSE comps[c]]

(***************************************************************************)
(* GET /api/home                                                           *)
(***************************************************************************)
\* The handler from its entry to its first await (or its answer).
HomeArrive(r) ==
    /\ hreq[r].pc = "idle"
    /\ IF homeFresh
       THEN /\ hout' = [to |-> {r}, resp |-> Resp(200, homeCache.data, "", "fresh")]
            /\ UNCHANGED <<hreq, comps, homeInFlight, storageCalls>>
       ELSE IF circuitOpen
       THEN /\ hout' = [to |-> {r}, resp |-> circuitAnswer]
            /\ UNCHANGED <<hreq, comps, homeInFlight, storageCalls>>
       ELSE IF needsNewComputation
       THEN \* the async function runs to its first await: the games query is issued
            /\ Len(comps) < MaxComps
            /\ comps' = Append(comps, [pc |-> "games", data |-> NoData, inv |-> FALSE])
            /\ homeInFlight' = Len(comps) + 1
            /\ storageCalls' = storageCalls + 1
            /\ hreq' = [hreq EXCEPT ![r] = Waiting(Len(comps) + 1)]
            /\ hout' = NoOut
       ELSE /\ hreq' = [hreq EXCEPT ![r] = Waiting(homeInFlight)]
            /\ hout' = NoOut
            /\ UNCHANGED <<comps, homeInFlight, storageCalls>>
    /\ gout' = NoResp
    /\ mout' = NoMut
    /\ UNCHANGED <<now, ticks, homeCache, homeCircuitUntil, gameCache, greq, storeVer, mut,
                   lastQuotaFailAt, gameReads>>
    /\ UNCHANGED otherThanCache

\* The games query of computation c returns; getPinnedBestIds is issued.
CompGamesOk(c) ==
    /\ c \in 1..Len(comps) /\ comps[c].pc = "games"
    /\ comps' = [comps EXCEPT ![c] = [pc |-> "pinned", data |-> storeVer, inv |-> FALSE]]
    /\ storageCalls' = storageCalls + 1
    /\ hout' = NoOut /\ gout' = NoResp
    /\ mout' = NoMut
    /\ UNCHANGED <<now, ticks, homeCache, homeInFlight, homeCircuitUntil, hreq, gameCache,
                   greq, storeVer, mut, lastQuotaFailAt, gameReads>>
    /\ UNCHANGED otherThanCache

\* The pinned-ids read returns: the computation resolves; .then installs the
\* cache entry, .finally clears homeInFlight, and the waiters' awaits resume
\* (all in the same microtask drain).
CompSettleOk(c) ==
    /\ c \in 1..Len(comps) /\ comps[c].pc = "pinned"
    /\ homeCache' = [ts |-> now, data |-> comps[c].data, pre |-> FALSE]
    /\ homeInFlight' = 0
    /\ hreq' = [r \in HomeReqs |-> IF r \in Waiters(c) THEN IdleReq ELSE hreq[r]]
    /\ hout' = [to |-> Waiters(c), resp |-> Resp(200, comps[c].data, "", "computed")]
    /\ comps' = [comps EXCEPT ![c] = [pc |-> "settled", data |-> NoData, inv |-> FALSE]]
    /\ gout' = NoResp
    /\ mout' = NoMut
    /\ UNCHANGED <<now, ticks, homeCircuitUntil, gameCache, greq, storeVer, mut,
                   storageCalls, lastQuotaFailAt, gameReads>>
    /\ UNCHANGED otherThanCache

\* A read of computation c throws e: .catch opens the circuit on a quota
\* error and rethrows, .finally clears homeInFlight, the waiters' catch runs.
CompSettleFail(c, e) ==
    /\ c \in 1..Len(comps) /\ Pending(c)
    /\ homeCircuitUntil' = IF isQuotaError(e) THEN now + HOME_COOLDOWN_MS
                           ELSE homeCircuitUntil
    /\ lastQuotaFailAt' = IF isQuotaError(e) THEN now ELSE lastQuotaFailAt
    /\ homeInFlight' = 0
    /\ hreq' = [r \in HomeReqs |-> IF r \in Waiters(c) THEN IdleReq ELSE hreq[r]]
    /\ hout' = [to |-> Waiters(c), resp |-> homeCatch(e)]
    /\ comps' = [comps EXCEPT ![c] = [pc |-> "settled", data |-> NoData, inv |-> FALSE]]
    /\ gout' = NoResp
    /\ mout' = NoMut
    /\ UNCHANGED <<now, ticks, homeCache, gameCache, greq, storeVer, mut, storageCalls,
                   gameReads>>
    /\ UNCHANGED otherThanCache

\* server.js:403-408  the timer of withTimeout fires after ms
timerDue(r) == now >= hreq[r].start + HOME_TIMEOUT_MS

HomeTimeout_clears(r) ==
    /\ hreq[r].pc = "waiting"
    /\ timerDue(r)
    /\ hreq' = [hreq EXCEPT ![r] = IdleReq]
    /\ hout' = [to |-> {r}, resp |-> homeCatch("timeout")]
    /\ homeInFlight' = 0
    /\ gout' = NoResp
    /\ mout' = NoMut
    /\ UNCHANGED <<now, ticks, homeCache, homeCircuitUntil, comps, gameCache,
                   greq, storeVer, mut, storageCalls, lastQuotaFailAt, gameReads>>
    /\ UNCHANGED otherThanCache

\* The timer of request r's withTimeout rejects with Error("timeout") before
\* the computation settles; the handler's catch answers.
HomeTimeout(r) ==
    /\ hreq[r].pc = "waiting"
    /\ timerDue(r)
    /\ hreq' = [hreq EXCEPT ![r] = IdleReq]
    /\ hout' = [to |-> {r}, resp |-> homeCatch("timeout")]
    /\ gout' = NoResp
    /\ mout' = NoMut
    /\ UNCHANGED <<now, ticks, homeCache, homeInFlight, homeCircuitUntil, comps, gameCache,
                   greq, storeVer, mut, storageCalls, lastQuotaFailAt, gameReads>>
    /\ UNCHANGED otherThanCache

Tick(d) ==
    /\ ticks < MaxTicks
    /\ now' = now + d
    /\ ticks' = ticks + 1
    /\ hout' = NoOut /\ gout' = NoResp
    /\ mout' = NoMut
    /\ UNCHANGED <<homeCache, homeInFlight, homeCircuitUntil, comps, hreq, gameCache, greq,
                   storeVer, mut, storageCalls, lastQuotaFailAt, gameReads>>
    /\ UNCHANGED otherThanCache

(***************************************************************************)
(* GET /api/games/:id                                                      *)
(***************************************************************************)
IdleGameReq == [pc |-> "idle", id |-> "", cached |-> NoCache]

gameFresh_never(cached) == FALSE

\* server.js:667  cached && Date.now() - cached.ts < GAME_CACHE_TTL_MS
gameFresh(cached) == cached # NoCache /\ now - cached.ts < GAME_CACHE_TTL_MS

\* The handler to its first await: a fresh entry is served, otherwise the
\* document read is issued (cached stays bound to the entry seen on entry).
GameArrive(r, id) ==
    /\ greq[r].pc = "idle"
    /\ IF gameFresh(gameCache[id])
       THEN /\ gout' = Resp(200, gameCache[id].data, "", "fresh")
            /\ UNCHANGED <<greq, storageCalls, gameReads>>
       ELSE /\ gameReads < MaxGameReads
            /\ greq' = [greq EXCEPT ![r] = [pc |-> "reading", id |-> id,
                                            cached |-> gameCache[id]]]
            /\ gout' = NoResp
            /\ storageCalls' = storageCalls + 1
            /\ gameReads' = gameReads + 1
    /\ hout' = NoOut
    /\ mout' = NoMut
    /\ UNCHANGED <<now, ticks, homeCache, homeInFlight, homeCircuitUntil, comps, hreq,
                   gameCache, storeVer, mut, lastQuotaFailAt>>
    /\ UNCHANGED otherThanCache

\* The document read returns: 404 when the document does not exist (it was
\* never synced, or an admin reset wiped it), else the payload is cached and
\* served.
GameReadOk(r, exists) ==
    /\ greq[r].pc = "reading"
    /\ IF ~exists
       THEN /\ gout' = Resp(404, NoData, "Not found", "read")
            /\ UNCHANGED gameCache
       ELSE /\ gameCache' = [gameCache EXCEPT ![greq[r].id] =
                               [ts |-> now, data |-> storeVer, pre |-> FALSE]]
            /\ gout' = Resp(200, storeVer, "", "read")
    /\ greq' = [greq EXCEPT ![r] = IdleGameReq]
    /\ hout' = NoOut
    /\ mout' = NoMut
    /\ UNCHANGED <<now, ticks, homeCache, homeInFlight, homeCircuitUntil, comps, hreq,
                   storeVer, mut, storageCalls, lastQuotaFailAt, gameReads>>
    /\ UNCHANGED otherThanCache

\* server.js:686-692  the catch block of the game handler
gameCatch(cached, e) ==
    IF isQuotaError(e) /\ cached # NoCache
    THEN Resp(200, cached.data, "", "stale")
    ELSE Resp(500, NoData, e, "error")

GameReadFail(r, e) ==
    /\ greq[r].pc = "reading"
    /\ greq' = [greq EXCEPT ![r] = IdleGameReq]
    /\ gout' = gameCatch(greq[r].cached, e)
    /\ hout' = NoOut
    /\ mout' = NoMut
    /\ UNCHANGED <<now, ticks, homeCache, homeInFlight, homeCircuitUntil, comps, hreq,
                   gameCache, storeVer, mut, storageCalls, lastQuotaFailAt, gameReads>>
    /\ UNCHANGED otherThanCache

(***************************************************************************)
(* The mutating endpoints: POST /api/sync, /api/admin/reset and            *)
(* /api/admin/best-games/pull, as the cache layer sees them: their catalog *)
(* writes (each a committed Firestore write) and their invalidation.       *)
(***************************************************************************)
MarkPre(e) == IF e = NoCache THEN e ELSE [e EXCEPT !.pre = TRUE]
Unmark(e)  == IF e = NoCache THEN e ELSE [e EXCEPT !.pre = FALSE]

\* The values of the x-sync-secret header and of SYNC_SECRET: not there,
\* empty, or one of two secrets.
Secrets == {"undefined", "", "s1", "s2"}

requireSecret_equal(secret) == secret = syncSecret

\* server.js:336-339  secret && secret === process.env.SYNC_SECRET
requireSecret(secret) == secret \notin {"undefined", ""} /\ secret = syncSecret

\* The handler from its entry to its first await: 401 unless the secret is
\* right (server.js:700-703, 719-722, 826-829), else the work begins. Every
\* cache entry present now was cached before this operation.
MutStart(k, secret) ==
    /\ mut.pc = "idle"
    /\ IF ~requireSecret(secret)
       THEN /\ mout' = [kind |-> k, wrote |-> FALSE, st |-> 401]
            /\ UNCHANGED <<mut, homeCache, gameCache>>
       ELSE /\ mut' = [pc |-> CASE k = "sync" -> "write" [] k = "reset" -> "wipe"
                                 [] OTHER -> "scan",
                          kind |-> k, wrote |-> FALSE]
            /\ homeCache' = MarkPre(homeCache)
            /\ gameCache' = [id \in GameIds |-> MarkPre(gameCache[id])]
            /\ mout' = NoMut
    /\ hout' = NoOut /\ gout' = NoResp
    /\ UNCHANGED <<now, ticks, homeInFlight, homeCircuitUntil, comps, hreq, greq, storeVer,
                   storageCalls, lastQuotaFailAt, gameReads>>
    /\ UNCHANGED otherThanCache

\* admin reset: deleteCollection("games", 300) has emptied the collection.
MutWipe ==
    /\ mut.pc = "wipe" /\ storeVer < MaxWrites
    /\ storeVer' = storeVer + 1
    /\ mut' = [mut EXCEPT !.pc = "write", !.wrote = TRUE]
    /\ hout' = NoOut /\ gout' = NoResp /\ mout' = NoMut
    /\ UNCHANGED <<now, ticks, homeCache, homeInFlight, homeCircuitUntil, comps, hreq,
                   gameCache, greq, storageCalls, lastQuotaFailAt, gameReads>>
    /\ UNCHANGED otherThanCache

\* best-games pull: the upstream scan ends with a match. (Without one the
\* handler answers without a write or an invalidation: MutAbandon.)
MutScan ==
    /\ mut.pc = "scan"
    /\ mut' = [mut EXCEPT !.pc = "write"]
    /\ hout' = NoOut /\ gout' = NoResp /\ mout' = NoMut
    /\ UNCHANGED <<now, ticks, homeCache, homeInFlight, homeCircuitUntil, comps, hreq,
                   gameCache, greq, storeVer, storageCalls, lastQuotaFailAt, gameReads>>
    /\ UNCHANGED otherThanCache

\* A batch of upsertGames (runSync page, reseed, pulled games) commits.
MutWrite ==
    /\ mut.pc = "write" /\ storeVer < MaxWrites
    /\ storeVer' = storeVer + 1
    /\ mut' = [mut EXCEPT !.wrote = TRUE]
    /\ hout' = NoOut /\ gout' = NoResp /\ mout' = NoMut
    /\ UNCHANGED <<now, ticks, homeCache, homeInFlight, homeCircuitUntil, comps, hreq,
                   gameCache, greq, storageCalls, lastQuotaFailAt, gameReads>>
    /\ UNCHANGED otherThanCache

\* server.js:706 (sync: homeCache only), 803-804 (pull), 837-838 (reset)
clearsGameCache(k) == k \in {"reset", "pull"}

\* server.js:706, 803, 837  homeCache = null
clearsHomeCache(k) == k \in {"sync", "reset", "pull"}

\* The awaited work returned: the handler invalidates and answers 200.
\* (The pull only gets here with found.length > 0, after its upsert.)
MutFinish ==
    /\ mut.pc = "write"
    /\ mut.kind = "pull" => mut.wrote
    /\ homeCache' = IF clearsHomeCache(mut.kind) THEN NoCache ELSE homeCache
    /\ gameCache' = IF clearsGameCache(mut.kind) THEN [id \in GameIds |-> NoCache]
                    ELSE gameCache
    /\ mout' = [kind |-> mut.kind, wrote |-> mut.wrote, st |-> 200]
    /\ mut' = IdleMut
    /\ comps' = IF clearsHomeCache(mut.kind) THEN afterInvalidation ELSE comps
    /\ hout' = NoOut /\ gout' = NoResp
    /\ UNCHANGED <<now, ticks, homeInFlight, homeCircuitUntil, hreq, greq, storeVer,
                   storageCalls, lastQuotaFailAt, gameReads>>
    /\ UNCHANGED otherThanCache

\* The handler ends without invalidating: an awaited call threw (answer 500),
\* or the pull matched no name (answer 200, nothing written).
MutAbandon ==
    /\ mut.pc \in {"wipe", "scan", "write"}
    /\ mut' = IdleMut
    /\ homeCache' = Unmark(homeCache)
    /\ gameCache' = [id \in GameIds |-> Unmark(gameCache[id])]
    /\ hout' = NoOut /\ gout' = NoResp /\ mout' = NoMut
    /\ UNCHANGED <<now, ticks, homeInFlight, homeCircuitUntil, comps, hreq, greq, storeVer,
                   storageCalls, lastQuotaFailAt, gameReads>>
    /\ UNCHANGED otherThanCache

InitCacheLayer ==
    /\ now = 0 /\ ticks = 0
    /\ homeCache = NoCache /\ homeInFlight = 0 /\ homeCircuitUntil = 0
    /\ comps = <<>>
    /\ hreq = [r \in HomeReqs |-> IdleReq]
    /\ gameCache = [id \in GameIds |-> NoCache]
    /\ greq = [r \in GameReqs |-> IdleGameReq]
    /\ hout = NoOut /\ gout = NoResp
    /\ storeVer = 0
    /\ mut = IdleMut /\ mout = NoMut
    /\ storageCalls = 0 /\ lastQuotaFailAt = -1 /\ gameReads = 0

\* The server as deployed: SYNC_SECRET is set.
InitCache == InitCacheLayer /\ syncSecret = "s1"

\* The server under every setting of SYNC_SECRET, unset and empty included.
InitSecrets == InitCacheLayer /\ syncSecret \in Secrets \ {"s2"}

\* The mutating endpoints called with the right secret.
MutNext ==
    \/ \E k \in MutKinds : MutStart(k, syncSecret)
    \/ MutWipe
    \/ MutScan
    \/ MutWrite
    \/ MutFinish
    \/ MutAbandon

\* GET /api/home under the clock. Of the mutating endpoints the home layer
\* sees only the assignment homeCache = null, the same in all three; it
\* is here as POST /api/sync (whose catalog writes change no variable the
\* home handler reads but the data it would load).
NextCache ==
    \/ \E r \in HomeReqs : HomeArrive(r)
    \/ \E c \in 1..MaxComps : CompGamesOk(c)
    \/ \E c \in 1..MaxComps : CompSettleOk(c)
    \/ \E c \in 1..MaxComps, e \in StorageErrors : CompSettleFail(c, e)
    \/ \E r \in HomeReqs : HomeTimeout(r)
    \/ \E d \in TickSteps : Tick(d)
    \/ MutStart("sync", syncSecret)
    \/ MutFinish

\* GET /api/games/:id under the clock and the mutating endpoints.
NextGame ==
    \/ \E r \in GameReqs, id \in GameIds : GameArrive(r, id)
    \/ \E r \in GameReqs, x \in BOOLEAN : GameReadOk(r, x)
    \/ \E r \in GameReqs, e \in StorageErrors : GameReadFail(r, e)
    \/ \E d \in TickSteps : Tick(d)
    \/ MutNext

\* Both read endpoints against the mutating endpoints, at one instant of
\* the clock (every cache entry stays fresh, no timer fires).
NextInv ==
    \/ \E r \in HomeReqs : HomeArrive(r)
    \/ \E c \in 1..MaxComps : CompGamesOk(c)
    \/ \E c \in 1..MaxComps : CompSettleOk(c)
    \/ \E c \in 1..MaxComps, e \in StorageErrors : CompSettleFail(c, e)
    \/ \E r \in GameReqs, id \in GameIds : GameArrive(r, id)
    \/ \E r \in GameReqs, x \in BOOLEAN : GameReadOk(r, x)
    \/ \E r \in GameReqs, e \in StorageErrors : GameReadFail(r, e)
    \/ MutNext

\* The mutating endpoints called with any x-sync-secret header or none,
\* while both read endpoints fill the caches (their storage reads succeed),
\* at one instant of the clock.
NextAuth ==
    \/ \E k \in MutKinds, secret \in Secrets : MutStart(k, secret)
    \/ MutWipe
    \/ MutScan
    \/ MutWrite
    \/ MutFinish
    \/ MutAbandon
    \/ \E r \in HomeReqs : HomeArrive(r)
    \/ \E c \in 1..MaxComps : CompGamesOk(c)
    \/ \E c \in 1..MaxComps : CompSettleOk(c)
    \/ \E r \in GameReqs, id \in GameIds : GameArrive(r, id)
    \/ \E r \in GameReqs, x \in BOOLEAN : GameReadOk(r, x)

\* Both read endpoints under the clock, with no mutating endpoint running.
NextRead ==
    \/ \E r \in HomeReqs : HomeArrive(r)
    \/ \E c \in 1..MaxComps : CompGamesOk(c)
    \/ \E c \in 1..MaxComps : CompSettleOk(c)
    \/ \E c \in 1..MaxComps, e \in StorageErrors : CompSettleFail(c, e)
    \/ \E r \in HomeReqs : HomeTimeout(r)
    \/ \E r \in GameReqs, id \in GameIds : GameArrive(r, id)
    \/ \E r \in GameReqs, x \in BOOLEAN : GameReadOk(r, x)
    \/ \E r \in GameReqs, e \in StorageErrors : GameReadFail(r, e)
    \/ \E d \in TickSteps : Tick(d)


(***************************************************************************)
(* Category rebuild (rebuildCategoriesIndex) and the activeRunId reader.   *)
(***************************************************************************)
\* Object.entries(buckets), in insertion order; CATEGORY_DEFS has the same
\* ids in the same order.
CategoryOrder == <<"best", "rtp97", "exclusive", "new">>
CatIds == {CategoryOrder[i] : i \in 1..Len(CategoryOrder)}
RunIds == 1..MaxRuns

limitPerCategory == 80
READER_LIMIT     == 50

\* The enabled games a rebuild can load: "a" has rtp >= 97, "b" has not;
\* "a" was updated last, "b" was created last.
CatGames      == {"a", "b"}
HighRtp       == {"a"}
ByIdOrder     == <<"a", "b">>
ByUpdatedDesc == <<"a", "b">>
ByCreatedDesc == <<"b", "a">>

Take(s, n) == SubSeq(s, 1, IF Len(s) < n THEN Len(s) ELSE n)
Ordered(order, S) == SelectSeq(order, LAMBDA g : g \in S)

\* const buckets = { best, rtp97, exclusive, new } for the games loaded.
Buckets(games) ==
    [c \in CatIds |->
        CASE c = "best"      -> Take(Ordered(ByUpdatedDesc, games), limitPerCategory)
          [] c = "rtp97"     -> Take(Ordered(ByIdOrder, games \cap HighRtp), limitPerCategory)
          [] c = "exclusive" -> <<>>
          [] c = "new"       -> Take(Ordered(ByCreatedDesc, games), limitPerCategory)]

NoBuckets == [c \in CatIds |-> <<>>]

\* The item documents one batch sets for a bucket: { gameId, rank: idx + 1 }.
batchItems_none(list) == {}

batchItems(list) == {[gameId |-> list[i], rank |-> i] : i \in 1..Len(list)}

\* .orderBy("rank", "asc").limit(50), then the document ids.
orderByRank(items) ==
    [k \in 1..Cardinality(items) |->
        (CHOOSE it \in items : Cardinality({o \in items : o.rank < it.rank}) = k - 1).gameId]
readItems(items) == Take(orderByRank(items), READER_LIMIT)

IdleRb == [pc |-> "idle", runId |-> 0, i |-> 0, buckets |-> NoBuckets]
IdleRd == [pc |-> "idle", i |-> 0, run |-> 0]
NoRd   == [cat |-> "", run |-> 0, items |-> <<>>]

\* runSync calls rebuildCategoriesIndex({ limitPerCategory: 80, runId }) with
\* runId = String(Date.now()): a value no earlier run has used.
RbStart ==
    /\ rb.pc = "idle"
    /\ nextRun <= MaxRuns
    /\ rb' = [pc |-> "ensure", runId |-> nextRun, i |-> 1, buckets |-> NoBuckets]
    /\ nextRun' = nextRun + 1
    /\ prevActive' = catActive
    /\ rdout' = NoRd
    /\ UNCHANGED <<catStore, catActive, runItems, rd, computed>>
    /\ UNCHANGED otherThanCat

\* for (const c of CATEGORY_DEFS) await categories/{c.id}.set({title, ...}, merge)
RbEnsure ==
    /\ rb.pc = "ensure"
    /\ catStore' = [catStore EXCEPT ![CategoryOrder[rb.i]] = TRUE]
    /\ rb' = IF rb.i < Len(CategoryOrder)
             THEN [rb EXCEPT !.i = rb.i + 1]
             ELSE [rb EXCEPT !.pc = "load", !.i = 0]
    /\ rdout' = NoRd
    /\ UNCHANGED <<catActive, runItems, rd, nextRun, computed, prevActive>>
    /\ UNCHANGED otherThanCat

\* The games query returns; the buckets are computed from its documents.
RbLoad(games) ==
    /\ rb.pc = "load"
    /\ rb' = [rb EXCEPT !.pc = "commit", !.i = 1, !.buckets = Buckets(games)]
    /\ computed' = [computed EXCEPT ![rb.runId] = Buckets(games)]
    /\ rdout' = NoRd
    /\ UNCHANGED <<catStore, catActive, runItems, rd, nextRun, prevActive>>
    /\ UNCHANGED otherThanCat

\* One batch.commit(): the bucket's items under runs/{runId}/items and the
\* activeRunId of the category document, in one atomic write.
RbCommit ==
    /\ rb.pc = "commit"
    /\ LET c == CategoryOrder[rb.i] IN
        /\ runItems' = [runItems EXCEPT ![c][rb.runId] = @ \cup batchItems(rb.buckets[c])]
        /\ catActive' = [catActive EXCEPT ![c] = rb.runId]
        /\ catStore' = [catStore EXCEPT ![c] = TRUE]
    /\ rb' = IF rb.i < Len(CategoryOrder) THEN [rb EXCEPT !.i = rb.i + 1] ELSE IdleRb
    /\ rdout' = NoRd
    /\ UNCHANGED <<rd, nextRun, computed, prevActive>>
    /\ UNCHANGED otherThanCat

\* Any of the awaited Firestore calls rejects: the rebuild ends where it is.
RbFail ==
    /\ rb.pc # "idle"
    /\ rb' = IdleRb
    /\ rdout' = NoRd
    /\ UNCHANGED <<catStore, catActive, runItems, rd, nextRun, computed, prevActive>>
    /\ UNCHANGED otherThanCat

\* The reader's loop goes to the next category, or answers after the last.
RdAdvance == IF rd.i < Len(CategoryOrder)
             THEN [pc |-> "cat", i |-> rd.i + 1, run |-> 0]
             ELSE IdleRd

RdStart ==
    /\ rd.pc = "idle"
    /\ rd' = [pc |-> "cat", i |-> 1, run |-> 0]
    /\ rdout' = NoRd
    /\ UNCHANGED <<catStore, catActive, runItems, rb, nextRun, computed, prevActive>>
    /\ UNCHANGED otherThanCat

\* const activeRunId = catSnap.exists ? catSnap.data()?.activeRunId : null
RdCat ==
    /\ rd.pc = "cat"
    /\ LET c == CategoryOrder[rd.i]
           activeRunId == IF catStore[c] THEN catActive[c] ELSE 0
       IN IF activeRunId = 0
          THEN /\ rd' = RdAdvance
               /\ rdout' = [cat |-> c, run |-> 0, items |-> <<>>]
          ELSE /\ rd' = [rd EXCEPT !.pc = "items", !.run = activeRunId]
               /\ rdout' = NoRd
    /\ UNCHANGED <<catStore, catActive, runItems, rb, nextRun, computed, prevActive>>
    /\ UNCHANGED otherThanCat

\* The items query of the run read before returns.
RdItems ==
    /\ rd.pc = "items"
    /\ LET c == CategoryOrder[rd.i]
           gameIds == readItems(runItems[c][rd.run])
       IN /\ rdout' = [cat |-> c, run |-> rd.run, items |-> gameIds]
          /\ rd' = IF gameIds = <<>> THEN RdAdvance ELSE [rd EXCEPT !.pc = "games"]
    /\ UNCHANGED <<catStore, catActive, runItems, rb, nextRun, computed, prevActive>>
    /\ UNCHANGED otherThanCat

\* firestore.getAll(...gamesRefs) returns; the bucket is pushed to the result.
RdGames ==
    /\ rd.pc = "games"
    /\ rd' = RdAdvance
    /\ rdout' = NoRd
    /\ UNCHANGED <<catStore, catActive, runItems, rb, nextRun, computed, prevActive>>
    /\ UNCHANGED otherThanCat

\* A read rejects: the handler answers 500.
RdFail ==
    /\ rd.pc # "idle"
    /\ rd' = IdleRd
    /\ rdout' = NoRd
    /\ UNCHANGED <<catStore, catActive, runItems, rb, nextRun, computed, prevActive>>
    /\ UNCHANGED otherThanCat

\* An empty database: no category document, no run.
InitCat ==
    /\ catStore = [c \in CatIds |-> FALSE]
    /\ catActive = [c \in CatIds |-> 0]
    /\ runItems = [c \in CatIds |-> [r \in RunIds |-> {}]]
    /\ rb = IdleRb /\ rd = IdleRd /\ rdout = NoRd
    /\ nextRun = 1
    /\ computed = [r \in RunIds |-> NoBuckets]
    /\ prevActive = [c \in CatIds |-> 0]

NextCat ==
    \/ RbStart
    \/ RbEnsure
    \/ \E games \in SUBSET CatGames : RbLoad(games)
    \/ RbCommit
    \/ RbFail
    \/ RdStart
    \/ RdCat
    \/ RdItems
    \/ RdGames
    \/ RdFail

IdleCat == InitCat

(***************************************************************************)
(* Broadcast bot (telegramBot.js): the draft state machine.                *)
(***************************************************************************)
\* TG_ADMIN_IDS holds chats 1 and 3; chat 2 is an ordinary user. Chat 0 is a
\* callback query without message.chat.id.
ADMIN_USER_IDS == {1, 3}
ChatIds == {1, 2, 3}
NoChat  == 0

isAdmin(userId) == userId \in ADMIN_USER_IDS

\* A field of an incoming message that is absent (or empty) is ""; null in
\* a payload is Null.
Absent == ""
Null   == "null"

Kinds == <<"text", "photoFileId", "videoFileId", "videoNoteFileId",
           "documentFileId", "audioFileId">>

Msg(text, caption, photo, video, videoNote, document, audio) ==
    [text |-> text, caption |-> caption, photo |-> photo, video |-> video,
     video_note |-> videoNote, document |-> document, audio |-> audio]

\* The messages an update can carry: plain text, commands, one medium, a
\* captioned photo, two kinds at once, and a message of no supported kind.
Messages ==
    { Msg("hello", Absent, Absent, Absent, Absent, Absent, Absent),
      Msg("/broadcast", Absent, Absent, Absent, Absent, Absent, Absent),
      Msg("/start", Absent, Absent, Absent, Absent, Absent, Absent),
      Msg(Absent, "cap", "p1", Absent, Absent, Absent, Absent),
      Msg("hello", Absent, "p1", Absent, Absent, Absent, Absent),
      Msg(Absent, Absent, Absent, Absent, Absent, Absent, Absent) }

CallbackData == {"approve_broadcast", "decline_broadcast", "other"}

isCommand_none(text) == FALSE

\* typeof msg.text === "string" && msg.text.startsWith("/")
isCommand(text) == text \in {"/broadcast", "/start", "/other"}
\* /^\/start(?:\s|$)/ and /^\/broadcast(?:\s|$)/
matchesStart(text)     == text = "/start"
matchesBroadcast(text) == text = "/broadcast"

orNull_keep(v) == v

orNull(v) == IF v = Absent THEN Null ELSE v

\* const payload = { text: msg.text || null, ... }
payloadOf(msg) ==
    [text            |-> orNull(msg.text),
     caption         |-> orNull(msg.caption),
     photoFileId     |-> orNull(msg.photo),
     videoFileId     |-> orNull(msg.video),
     videoNoteFileId |-> orNull(msg.video_note),
     documentFileId  |-> orNull(msg.document),
     audioFileId     |-> orNull(msg.audio)]

NoPayload == payloadOf(Msg(Absent, Absent, Absent, Absent, Absent, Absent, Absent))

\* The kinds set in a payload, and the one the if / else-if chain sends.
kindsSet(payload) == {i \in 1..Len(Kinds) : payload[Kinds[i]] # Null}
sendKind(payload) ==
    IF kindsSet(payload) = {} THEN "none"
    ELSE Kinds[CHOOSE i \in kindsSet(payload) : \A j \in kindsSet(payload) : i <= j]

\* The echo to the admin: if (payload.text) ... else if (payload.photoFileId)
\* ... else if (payload.audioFileId) ... else "Unsupported message type".
echoKind(payload) ==
    IF payload.text # Null THEN "text"
    ELSE IF payload.photoFileId # Null THEN "photoFileId"
    ELSE IF payload.videoFileId # Null THEN "videoFileId"
    ELSE IF payload.videoNoteFileId # Null THEN "videoNoteFileId"
    ELSE IF payload.documentFileId # Null THEN "documentFileId"
    ELSE IF payload.audioFileId # Null THEN "audioFileId"
    ELSE "none"

\* The delivery to a user: the same chain, with no final else.
deliverKind_last(payload) ==
    IF payload.audioFileId # Null THEN "audioFileId"
    ELSE IF payload.documentFileId # Null THEN "documentFileId"
    ELSE IF payload.videoNoteFileId # Null THEN "videoNoteFileId"
    ELSE IF payload.videoFileId # Null THEN "videoFileId"
    ELSE IF payload.photoFileId # Null THEN "photoFileId"
    ELSE IF payload.text # Null THEN "text"
    ELSE "none"

deliverKind(payload) ==
    IF payload.text # Null THEN "text"
    ELSE IF payload.photoFileId # Null THEN "photoFileId"
    ELSE IF payload.videoFileId # Null THEN "videoFileId"
    ELSE IF payload.videoNoteFileId # Null THEN "videoNoteFileId"
    ELSE IF payload.documentFileId # Null THEN "documentFileId"
    ELSE IF payload.audioFileId # Null THEN "audioFileId"
    ELSE "none"

\* The media kinds an incoming message carries, by the payload field that
\* captures each.
msgKinds(msg) ==
    {k \in 1..Len(Kinds) :
        \/ Kinds[k] = "text" /\ msg.text # Absent
        \/ Kinds[k] = "photoFileId" /\ msg.photo # Absent
        \/ Kinds[k] = "videoFileId" /\ msg.video # Absent
        \/ Kinds[k] = "videoNoteFileId" /\ msg.video_note # Absent
        \/ Kinds[k] = "documentFileId" /\ msg.document # Absent
        \/ Kinds[k] = "audioFileId" /\ msg.audio # Absent}

IdleState == [step |-> "idle", payload |-> NoPayload]
NoTask == [pc |-> "done", chat |-> NoChat, payload |-> NoPayload, todo |-> <<>>, sent |-> 0,
           loaded |-> <<>>, tried |-> <<>>]
NoSend == [to |-> NoChat, what |-> "", kind |-> "", ok |-> FALSE, n |-> 0]
\* An awaiting handler invocation: where it awaits, its chatId and payload,
\* and for a fan-out the userIds loaded, those still to come, the sends
\* tried so far and the sent counter.
Task(pc, chat, payload) == [pc |-> pc, chat |-> chat, payload |-> payload, todo |-> <<>>, sent |-> 0,
                            loaded |-> <<>>, tried |-> <<>>]
Send(to, what, kind, ok) == [to |-> to, what |-> what, kind |-> kind, ok |-> ok, n |-> 0]

\* getAllUsers(): the ids of the users collection, in document order.
SetToSeq(S) == [k \in 1..Cardinality(S) |->
                    CHOOSE x \in S : Cardinality({y \in S : y < x}) = k - 1]

NoUpdate == [kind |-> "", chat |-> NoChat, data |-> ""]

\* An update is processed when one more handler invocation can be awaiting.
CanSpawn == BagCardinality(tasks) < pendingCap
Spawn(task) == IF task.pc = "done" THEN tasks ELSE tasks (+) SetToBag({task})
\* An awaiting invocation goes on as `next`, or ends.
Become(task, next) == (tasks (-) SetToBag({task})) (+) SetToBag({next})
Finish(task) == tasks (-) SetToBag({task})
PendingTasks == BagToSet(tasks)

\* bot.on("message"), up to its first await: whether the message is captured
\* as the draft of the chat.
captures(chat, msg) ==
    /\ isAdmin(chat)
    /\ broadcastState[chat].step = "waiting_for_message"
    /\ ~isCommand(msg.text)

afterMessage_shared(chat, msg) ==
    IF captures(chat, msg)
    THEN [c \in ChatIds |-> [step |-> "confirming", payload |-> payloadOf(msg)]]
    ELSE broadcastState

afterMessage(chat, msg) ==
    IF captures(chat, msg)
    THEN [broadcastState EXCEPT ![chat] = [step |-> "confirming", payload |-> payloadOf(msg)]]
    ELSE broadcastState

messageTask(chat, msg) ==
    IF captures(chat, msg)
    THEN Task(IF echoKind(payloadOf(msg)) # "none" THEN "echo" ELSE "unsupported",
              chat, payloadOf(msg))
    ELSE NoTask

\* bot.onText(/broadcast), up to its first await: the draft state it leaves.
broadcastSets_any(chat) == TRUE

broadcastSets(chat) == isAdmin(chat)

\* processUpdate of a message: the "message" listeners run first, then the
\* first onText callback whose regexp matches, each up to its first await.
MessageUpdate(chat, msg) ==
    /\ CanSpawn
    /\ lastUpdate' = [kind |-> "message", chat |-> chat, data |-> msg.text]
    /\ LET s1 == afterMessage(chat, msg)
           t1 == messageTask(chat, msg)
       IN  IF matchesStart(msg.text)
           THEN /\ broadcastState' = s1
                /\ tasks' = Spawn(Task("addUser", chat, NoPayload))
           ELSE IF matchesBroadcast(msg.text)
           THEN IF broadcastSets(chat)
                THEN /\ broadcastState' = [s1 EXCEPT ![chat] =
                                [step |-> "waiting_for_message", payload |-> NoPayload]]
                     /\ tasks' = Spawn(Task("prompt", chat, NoPayload))
                ELSE /\ broadcastState' = s1
                     /\ tasks' = Spawn(Task("reject", chat, NoPayload))
           ELSE /\ broadcastState' = s1
                /\ tasks' = Spawn(t1)
    /\ lastSend' = NoSend
    /\ UNCHANGED <<users, pendingCap, chats, inbox>>
    /\ UNCHANGED otherThanBot

\* bot.on("callback_query"), up to its first await.
handlesCallback_notIdle(chat) ==
    /\ chat # NoChat
    /\ isAdmin(chat)
    /\ broadcastState[chat].step # "idle"

handlesCallback_anyStep(chat) ==
    /\ chat # NoChat
    /\ isAdmin(chat)

handlesCallback(chat) ==
    /\ chat # NoChat
    /\ isAdmin(chat)
    /\ broadcastState[chat].step = "confirming"

CallbackUpdate_keepsDraft(chat, data) ==
    /\ CanSpawn
    /\ lastUpdate' = [kind |-> "callback", chat |-> chat, data |-> data]
    /\ IF handlesCallback(chat) /\ data = "decline_broadcast"
       THEN /\ broadcastState' = [broadcastState EXCEPT ![chat] = IdleState]
            /\ tasks' = Spawn(Task("cancelNotice", chat, NoPayload))
       ELSE IF handlesCallback(chat) /\ data = "approve_broadcast"
       THEN /\ UNCHANGED broadcastState
            /\ tasks' = Spawn(Task("loadUsers", chat, broadcastState[chat].payload))
       ELSE UNCHANGED <<broadcastState, tasks>>
    /\ lastSend' = NoSend
    /\ UNCHANGED <<users, pendingCap, chats, inbox>>
    /\ UNCHANGED otherThanBot

CallbackUpdate(chat, data) ==
    /\ CanSpawn
    /\ lastUpdate' = [kind |-> "callback", chat |-> chat, data |-> data]
    /\ IF handlesCallback(chat) /\ data = "decline_broadcast"
       THEN /\ broadcastState' = [broadcastState EXCEPT ![chat] = IdleState]
            /\ tasks' = Spawn(Task("cancelNotice", chat, NoPayload))
       ELSE IF handlesCallback(chat) /\ data = "approve_broadcast"
       THEN /\ broadcastState' = [broadcastState EXCEPT ![chat] = IdleState]
            /\ tasks' = Spawn(Task("loadUsers", chat, broadcastState[chat].payload))
       ELSE UNCHANGED <<broadcastState, tasks>>
    /\ lastSend' = NoSend
    /\ UNCHANGED <<users, pendingCap, chats, inbox>>
    /\ UNCHANGED otherThanBot

\* The reply of bot.onText(/broadcast) settles: the rejection of a
\* non-admin, or the prompt of an admin.
BroadcastReplySettles(task, ok) ==
    /\ task.pc \in {"reject", "prompt"}
    /\ lastSend' = Send(task.chat, task.pc, "text", ok)
    /\ tasks' = Finish(task)
    /\ lastUpdate' = NoUpdate
    /\ UNCHANGED <<broadcastState, users, pendingCap, chats, inbox>>
    /\ UNCHANGED otherThanBot

\* The echo of the captured payload settles; a rejection goes to the catch.
EchoSettles(task, ok) ==
    /\ task.pc = "echo"
    /\ lastSend' = Send(task.chat, "echo", echoKind(task.payload), ok)
    /\ IF ok
       THEN /\ tasks' = Become(task, [task EXCEPT !.pc = "confirm"])
            /\ UNCHANGED broadcastState
       ELSE /\ tasks' = Finish(task)
            /\ broadcastState' = [broadcastState EXCEPT ![task.chat] = IdleState]
    /\ lastUpdate' = NoUpdate
    /\ UNCHANGED <<users, pendingCap, chats, inbox>>
    /\ UNCHANGED otherThanBot

\* The "Unsupported message type" reply settles: the entry is deleted after
\* it, or by the catch.
UnsupportedSettles_keep(task, ok) ==
    /\ task.pc = "unsupported"
    /\ lastSend' = Send(task.chat, "unsupported", "text", ok)
    /\ tasks' = Finish(task)
    /\ lastUpdate' = NoUpdate
    /\ UNCHANGED <<broadcastState, users, pendingCap, chats, inbox>>
    /\ UNCHANGED otherThanBot

UnsupportedSettles(task, ok) ==
    /\ task.pc = "unsupported"
    /\ lastSend' = Send(task.chat, "unsupported", "text", ok)
    /\ tasks' = Finish(task)
    /\ broadcastState' = [broadcastState EXCEPT ![task.chat] = IdleState]
    /\ lastUpdate' = NoUpdate
    /\ UNCHANGED <<users, pendingCap, chats, inbox>>
    /\ UNCHANGED otherThanBot

\* The "Is this the message you want to broadcast?" prompt settles.
ConfirmSettles(task, ok) ==
    /\ task.pc = "confirm"
    /\ lastSend' = Send(task.chat, "confirm", "text", ok)
    /\ tasks' = Finish(task)
    /\ broadcastState' = IF ok THEN broadcastState
                         ELSE [broadcastState EXCEPT ![task.chat] = IdleState]
    /\ lastUpdate' = NoUpdate
    /\ UNCHANGED <<users, pendingCap, chats, inbox>>
    /\ UNCHANGED otherThanBot

\* The "Broadcast cancelled" notice of a decline settles.
CancelNoticeSettles(task, ok) ==
    /\ task.pc = "cancelNotice"
    /\ lastSend' = Send(task.chat, "cancelled", "text", ok)
    /\ tasks' = Finish(task)
    /\ lastUpdate' = NoUpdate
    /\ UNCHANGED <<broadcastState, users, pendingCap, chats, inbox>>
    /\ UNCHANGED otherThanBot

\* getAllUsers() settles. With a payload of no kind the delivery loop has
\* no await and runs to its end at once, counting every user as sent.
LoadUsersSettles(task, ok) ==
    /\ task.pc = "loadUsers"
    /\ LET userIds == SetToSeq(users) IN
       tasks' = Become(task,
            IF ~ok THEN [task EXCEPT !.pc = "loadFailNotice"]
            ELSE IF deliverKind(task.payload) = "none"
                 THEN [task EXCEPT !.pc = "report", !.loaded = userIds, !.sent = Len(userIds)]
            ELSE IF userIds = <<>> THEN [task EXCEPT !.pc = "report"]
            ELSE [task EXCEPT !.pc = "deliver", !.loaded = userIds, !.todo = userIds])
    /\ lastSend' = NoSend
    /\ lastUpdate' = NoUpdate
    /\ UNCHANGED <<broadcastState, users, pendingCap, chats, inbox>>
    /\ UNCHANGED otherThanBot

\* "Failed to load users from the database." settles.
LoadFailNoticeSettles(task, ok) ==
    /\ task.pc = "loadFailNotice"
    /\ lastSend' = Send(task.chat, "loadFailed", "text", ok)
    /\ tasks' = Finish(task)
    /\ lastUpdate' = NoUpdate
    /\ UNCHANGED <<broadcastState, users, pendingCap, chats, inbox>>
    /\ UNCHANGED otherThanBot

\* The send of the payload to the next user settles; a rejection is ignored.
DeliverSettles(task, ok) ==
    /\ task.pc = "deliver"
    /\ LET userId == Head(task.todo) IN
        lastSend' = Send(userId, "payload", deliverKind(task.payload), ok)
    /\ tasks' = Become(task,
                    [task EXCEPT !.todo = Tail(@),
                                 !.tried = Append(@, [to |-> Head(task.todo), ok |-> ok]),
                                 !.sent = @ + (IF ok THEN 1 ELSE 0),
                                 !.pc = IF Len(task.todo) = 1 THEN "report" ELSE "deliver"])
    /\ lastUpdate' = NoUpdate
    /\ UNCHANGED <<broadcastState, users, pendingCap, chats, inbox>>
    /\ UNCHANGED otherThanBot

\* "Broadcast completed. Delivered to ${sent} users." settles.
ReportSettles(task, ok) ==
    /\ task.pc = "report"
    /\ lastSend' = [Send(task.chat, "report", "text", ok) EXCEPT !.n = task.sent]
    /\ tasks' = Finish(task)
    /\ lastUpdate' = NoUpdate
    /\ UNCHANGED <<broadcastState, users, pendingCap, chats, inbox>>
    /\ UNCHANGED otherThanBot

\* /start: addUser(chatId, username) settles.
AddUserSettles(task, ok) ==
    /\ task.pc = "addUser"
    /\ users' = IF ok THEN users \cup {task.chat} ELSE users
    /\ tasks' = Become(task, [task EXCEPT !.pc = IF ok THEN "welcome" ELSE "fallback"])
    /\ lastSend' = NoSend
    /\ lastUpdate' = NoUpdate
    /\ UNCHANGED <<broadcastState, pendingCap, chats, inbox>>
    /\ UNCHANGED otherThanBot

\* /start: the welcome message settles; a rejection leads to the fallback.
WelcomeSettles(task, ok) ==
    /\ task.pc = "welcome"
    /\ lastSend' = Send(task.chat, "welcome", "text", ok)
    /\ tasks' = IF ok THEN Finish(task) ELSE Become(task, [task EXCEPT !.pc = "fallback"])
    /\ lastUpdate' = NoUpdate
    /\ UNCHANGED <<broadcastState, users, pendingCap, chats, inbox>>
    /\ UNCHANGED otherThanBot

\* /start: "An error occurred. Please try again later." settles.
FallbackSettles(task, ok) ==
    /\ task.pc = "fallback"
    /\ lastSend' = Send(task.chat, "fallback", "text", ok)
    /\ tasks' = Finish(task)
    /\ lastUpdate' = NoUpdate
    /\ UNCHANGED <<broadcastState, users, pendingCap, chats, inbox>>
    /\ UNCHANGED otherThanBot

\* The users collection outlives the process: at start it is empty or holds
\* users registered before. The draft map is new.
UsersAtStart == {{}, {2}}

InitBot ==
    /\ broadcastState = [c \in ChatIds |-> IdleState]
    /\ tasks = EmptyBag
    /\ users \in UsersAtStart
    /\ pendingCap = MaxPending
    /\ chats = {1, 2}
    /\ inbox = Messages
    /\ lastSend = NoSend
    /\ lastUpdate = NoUpdate

\* The bot with two registered users at start and one more update taken
\* while handlers are awaiting.
InitFanout ==
    /\ broadcastState = [c \in ChatIds |-> IdleState]
    /\ tasks = EmptyBag
    /\ users = {1, 2}
    /\ pendingCap = MaxPending + 1
    /\ chats = {1, 2}
    /\ inbox = Messages
    /\ lastSend = NoSend
    /\ lastUpdate = NoUpdate

\* Both admin chats use the bot, sending commands and drafts of one kind or
\* none.
InitAdmins ==
    /\ broadcastState = [c \in ChatIds |-> IdleState]
    /\ tasks = EmptyBag
    /\ users = {2}
    /\ pendingCap = MaxPending
    /\ chats = ADMIN_USER_IDS
    /\ inbox = {msg \in Messages : Cardinality(msgKinds(msg)) <= 1}
    /\ lastSend = NoSend
    /\ lastUpdate = NoUpdate

NextBot ==
    \/ \E chat \in chats, msg \in inbox : MessageUpdate(chat, msg)
    \/ \E chat \in chats \cup {NoChat}, data \in CallbackData : CallbackUpdate(chat, data)
    \/ \E task \in PendingTasks, ok \in BOOLEAN : BroadcastReplySettles(task, ok)
    \/ \E task \in PendingTasks, ok \in BOOLEAN : EchoSettles(task, ok)
    \/ \E task \in PendingTasks, ok \in BOOLEAN : UnsupportedSettles(task, ok)
    \/ \E task \in PendingTasks, ok \in BOOLEAN : ConfirmSettles(task, ok)
    \/ \E task \in PendingTasks, ok \in BOOLEAN : CancelNoticeSettles(task, ok)
    \/ \E task \in PendingTasks, ok \in BOOLEAN : LoadUsersSettles(task, ok)
    \/ \E task \in PendingTasks, ok \in BOOLEAN : LoadFailNoticeSettles(task, ok)
    \/ \E task \in PendingTasks, ok \in BOOLEAN : DeliverSettles(task, ok)
    \/ \E task \in PendingTasks, ok \in BOOLEAN : ReportSettles(task, ok)
    \/ \E task \in PendingTasks, ok \in BOOLEAN : AddUserSettles(task, ok)
    \/ \E task \in PendingTasks, ok \in BOOLEAN : WelcomeSettles(task, ok)
    \/ \E task \in PendingTasks, ok \in BOOLEAN : FallbackSettles(task, ok)

IdleBot ==
    /\ broadcastState = [c \in ChatIds |-> IdleState]
    /\ tasks = EmptyBag
    /\ users = {}
    /\ pendingCap = MaxPending
    /\ chats = {1, 2}
    /\ inbox = Messages
    /\ lastSend = NoSend
    /\ lastUpdate = NoUpdate

(***************************************************************************)
(* runSync: the page loop.                                                 *)
(***************************************************************************)
PER_PAGE               == 150
DEFAULT_MAX_SYNC_PAGES == 1
HARD_PAGE_CAP          == 2000
chunkSize              == 250
\* meta.last_page is not a number (or there is no meta); lastPage = null.
NoLastPage             == 0 - 1

\* A page of the upstream API: the number of raw records, how many of them
\* are published, and meta.last_page.
Page(size, published, lastPage) == [size |-> size, published |-> published, last_page |-> lastPage]
FullPage  == Page(PER_PAGE, PER_PAGE, NoLastPage)
ShortPage == Page(10, 10, NoLastPage)
EmptyPage == Page(0, 0, NoLastPage)
PageShapes ==
    { FullPage, ShortPage,
      Page(PER_PAGE, PER_PAGE - 1, NoLastPage),   \* one record unpublished
      Page(PER_PAGE, PER_PAGE, 2) }               \* upstream declares two pages

RECURSIVE SeqsUpTo(_, _)
SeqsUpTo(S, n) ==
    IF n = 0 THEN {<<>>}
    ELSE LET shorter == SeqsUpTo(S, n - 1)
         IN shorter \cup {Append(q, x) : q \in shorter, x \in S}

Upstreams == SeqsUpTo(PageShapes, MaxPages)
\* Number(process.env.MAX_SYNC_PAGES || 1): the default, or a configured value.
SyncPageLimits == {DEFAULT_MAX_SYNC_PAGES, 2, 3, HARD_PAGE_CAP, HARD_PAGE_CAP + 1}

\* lastUpdatedAtDate is absent (getLastSyncDate() returns null); no filter.
NoDate == 0
\* UTC dates (yyyy-mm-dd), numbered in order.
Dates == 1..MaxDay

\* One call the run has issued and that has not settled yet.
Op(kind, page, n) == [kind |-> kind, page |-> page, n |-> n]

\* fetchGamesPage({ page, perPage: PER_PAGE, updatedAt }): the page of the
\* listing, of the listing filtered by updated_at when updatedAt is given.
fetchGamesPage(page, updatedAt) ==
    LET listing == IF updatedAt = NoDate THEN upstream ELSE narrowed[updatedAt]
    IN  IF page <= Len(listing) THEN listing[page] ELSE beyond

\* The number of batch commits of upsertGames for n games.
Chunks(n) == (n + chunkSize - 1) \div chunkSize

\* The games collection, by the page of the listing a record came with:
\* how many records of that page are stored, and which call wrote them.
Stored(src, page, n) == [src |-> src, page |-> page, n |-> n]
StoreAtStart == {Stored("before", 1, PER_PAGE)}

\* batch.commit() of one chunk: the documents of the chunk are set (merge).
commitChunk_lost(store, src, page, n) == store
commitChunk(store, src, page, n) ==
    {d \in store : ~(d.page = page /\ (d.src = src \/ d.src = "before"))}
        \cup {Stored(src, page, n)}

IdleSy == [pc |-> "idle", fullSync |-> FALSE, lastDate |-> NoDate, updatedAt |-> NoDate,
           page |-> 0, totalFetched |-> 0, lastPage |-> NoLastPage,
           fetched |-> 0, raw |-> 0, published |-> 0, left |-> 0,
           date |-> NoDate, stop |-> "", thrownAt |-> "", ops |-> {}, resp |-> 0]

\* await upsertGames(publishedOnly): the loop goes on when the commits are in.
awaitsUpsert_not == FALSE
awaitsUpsert == TRUE

\* The stop condition of the loop.
stopCondition_fullPage(s) ==
    IF s.lastPage # NoLastPage THEN s.page >= s.lastPage ELSE s.raw >= PER_PAGE
stopCondition(s) ==
    IF s.lastPage # NoLastPage THEN s.page >= s.lastPage ELSE s.raw < PER_PAGE

\* if (page > MAX_SYNC_PAGES) break; if (page > 2000) break;
pastCeiling_never(page) == FALSE
pastCeiling(page) == page > maxSyncPages \/ page > HARD_PAGE_CAP

\* toDateStringYYYYMMDD(new Date())
newDate_lastDate == sy.lastDate
newDate == today

\* After the loop: the category rebuild when REBUILD_CATEGORIES is set, else
\* setLastSyncDate(toDateStringYYYYMMDD(new Date())) is called.
loopEnd(s, reason) ==
    LET ended == [s EXCEPT !.stop = reason, !.left = 0]
    IN  IF rebuildCategories
        THEN [ended EXCEPT !.pc = "rebuild", !.ops = @ \cup {Op("rebuild", 0, 0)}]
        ELSE [ended EXCEPT !.pc = "setdate", !.date = newDate,
                           !.ops = @ \cup {Op("setdate", 0, newDate)}]

\* The end of one turn of the while loop, after upsertGames(publishedOnly):
\* the count, the stop condition, the page ceilings.
afterUpsert(s) ==
    LET counted == [s EXCEPT !.totalFetched = s.totalFetched + s.published, !.left = 0]
    IN  IF stopCondition(s)
        THEN loopEnd(counted, IF s.lastPage # NoLastPage THEN "lastPage" ELSE "short")
        ELSE IF pastCeiling(s.page + 1)
        THEN loopEnd([counted EXCEPT !.page = s.page + 1], "ceiling")
        ELSE [counted EXCEPT !.pc = "fetch", !.page = s.page + 1,
                             !.ops = @ \cup {Op("fetch", s.page + 1, 0)}]

\* What the steps of runSync leave alone.
syncEnv == <<upstream, narrowed, beyond, maxSyncPages, rebuildCategories, today, sd, seedsLeft,
             rs>>

\* runSync is called (POST /api/sync); getLastSyncDate() is awaited.
SyStart ==
    /\ sy.pc \in {"idle", "done", "failed"}
    /\ runsLeft > 0
    /\ runsLeft' = runsLeft - 1
    /\ \E full \in BOOLEAN :
           sy' = [IdleSy EXCEPT !.pc = "start", !.fullSync = full, !.ops = {Op("read", 0, 0)}]
    /\ UNCHANGED <<syncEnv, lastUpdatedAtDate, gamesStore, pagesByFilter>>
    /\ UNCHANGED otherThanSync

\* getLastSyncDate() returns; the first page is requested.
SyLastDate ==
    /\ sy.pc = "start"
    /\ sy' = [sy EXCEPT !.pc = "fetch", !.page = 1,
                        !.lastDate = lastUpdatedAtDate,
                        !.updatedAt = IF sy.fullSync THEN NoDate ELSE lastUpdatedAtDate,
                        !.ops = {Op("fetch", 1, 0)}]
    /\ UNCHANGED <<syncEnv, runsLeft, lastUpdatedAtDate, gamesStore, pagesByFilter>>
    /\ UNCHANGED otherThanSync

\* A page fetch returns.
SyFetch ==
    /\ sy.pc = "fetch"
    /\ Op("fetch", sy.page, 0) \in sy.ops
    /\ LET data == fetchGamesPage(sy.page, sy.updatedAt)
           arrived == [sy EXCEPT !.ops = @ \ {Op("fetch", sy.page, 0)}, !.fetched = @ + 1]
           got == [arrived EXCEPT !.raw = data.size, !.published = data.published,
                                  !.lastPage = IF data.last_page # NoLastPage
                                               THEN data.last_page ELSE sy.lastPage,
                                  !.left = Chunks(data.published)]
           commit == Op("commit", sy.page, data.published)
       IN sy' = IF data.size = 0 THEN loopEnd(arrived, "empty")
                ELSE IF got.left = 0 THEN afterUpsert(got)
                ELSE IF awaitsUpsert THEN [got EXCEPT !.pc = "upsert", !.ops = @ \cup {commit}]
                ELSE afterUpsert([got EXCEPT !.ops = @ \cup {commit}])
    /\ UNCHANGED <<syncEnv, runsLeft, lastUpdatedAtDate, gamesStore, pagesByFilter>>
    /\ UNCHANGED otherThanSync

\* One batch.commit() of upsertGames returns.
SyUpsert ==
    \E op \in sy.ops :
        /\ op.kind = "commit"
        /\ LET awaited == sy.pc = "upsert" /\ op.page = sy.page
               chunksIn == IF awaited THEN Chunks(op.n) - sy.left + 1 ELSE Chunks(op.n)
               n == IF chunksIn * chunkSize < op.n THEN chunksIn * chunkSize ELSE op.n
           IN /\ gamesStore' = commitChunk(gamesStore, "sync", op.page, n)
              /\ sy' = IF ~awaited THEN [sy EXCEPT !.ops = @ \ {op}]
                       ELSE IF sy.left > 1 THEN [sy EXCEPT !.left = sy.left - 1]
                       ELSE afterUpsert([sy EXCEPT !.ops = @ \ {op}])
        /\ UNCHANGED <<syncEnv, runsLeft, lastUpdatedAtDate, pagesByFilter>>
        /\ UNCHANGED otherThanSync

\* rebuildCategoriesIndex returns; setLastSyncDate is called.
SyRebuilt ==
    /\ sy.pc = "rebuild"
    /\ sy' = [sy EXCEPT !.pc = "setdate", !.date = newDate, !.ops = {Op("setdate", 0, newDate)}]
    /\ UNCHANGED <<syncEnv, runsLeft, lastUpdatedAtDate, gamesStore, pagesByFilter>>
    /\ UNCHANGED otherThanSync

\* setLastSyncDate returns; runSync returns { totalFetched, ... } and the
\* handler answers { ok: true, info }.
SyFinish ==
    /\ sy.pc = "setdate"
    /\ lastUpdatedAtDate' = sy.date
    /\ sy' = [sy EXCEPT !.pc = "done", !.ops = {}, !.resp = 200]
    /\ pagesByFilter' = [pagesByFilter EXCEPT ![sy.updatedAt] = sy.fetched]
    /\ UNCHANGED <<syncEnv, runsLeft, gamesStore>>
    /\ UNCHANGED otherThanSync

\* An awaited call rejects: runSync throws and the handler answers 500.
SyFail_stamps ==
    /\ sy.pc \in {"start", "fetch", "upsert", "rebuild", "setdate"}
    /\ sy' = [sy EXCEPT !.pc = "failed", !.thrownAt = sy.pc, !.ops = {}, !.resp = 500]
    /\ lastUpdatedAtDate' = today
    /\ UNCHANGED <<syncEnv, runsLeft, gamesStore, pagesByFilter>>
    /\ UNCHANGED otherThanSync

SyFail ==
    /\ sy.pc \in {"start", "fetch", "upsert", "rebuild", "setdate"}
    /\ sy' = [sy EXCEPT !.pc = "failed", !.thrownAt = sy.pc, !.ops = {}, !.resp = 500]
    /\ UNCHANGED <<syncEnv, runsLeft, lastUpdatedAtDate, gamesStore, pagesByFilter>>
    /\ UNCHANGED otherThanSync

(***************************************************************************)
(* seedNewestPublishedGames (sync.js), called by POST /api/admin/reset.    *)
(***************************************************************************)
\* { target = 100, maxPages = 10 }
SEED_TARGET    == 100
SEED_MAX_PAGES == 10
\* The handler passes Number(req.body?.target ?? 100).
SeedTargets == {SEED_TARGET, 2 * PER_PAGE}

IdleSd == [pc |-> "idle", target |-> 0, page |-> 0, collected |-> 0, left |-> 0, date |-> NoDate]

\* await setLastSyncDate(toDateStringYYYYMMDD(new Date()))
seedStamp(s) == [s EXCEPT !.pc = "setdate", !.date = today, !.left = 0]

\* await upsertGames(finalList)
seedUpsert(s) ==
    IF Chunks(s.collected) = 0 THEN seedStamp(s)
    ELSE [s EXCEPT !.pc = "upsert", !.left = Chunks(s.collected)]

\* while (collected.length < target && page <= maxPages)
seedLoop(s) ==
    IF s.collected < s.target /\ s.page <= SEED_MAX_PAGES
    THEN [s EXCEPT !.pc = "fetch"]
    ELSE seedUpsert(s)

\* What the steps of seedNewestPublishedGames leave alone.
seedEnv == <<upstream, narrowed, beyond, maxSyncPages, rebuildCategories, today,
             sy, runsLeft, pagesByFilter, rs>>

\* seedNewestPublishedGames({ target }) is called.
SdStart ==
    /\ sd.pc \in {"idle", "done", "failed"}
    /\ seedsLeft > 0
    /\ seedsLeft' = seedsLeft - 1
    /\ \E target \in SeedTargets :
           sd' = seedLoop([IdleSd EXCEPT !.target = target, !.page = 1])
    /\ UNCHANGED <<seedEnv, lastUpdatedAtDate, gamesStore>>
    /\ UNCHANGED otherThanSync

\* A page fetch returns.
SdFetch ==
    /\ sd.pc = "fetch"
    /\ LET data == fetchGamesPage(sd.page, NoDate)
           room == sd.target - sd.collected
           add  == IF data.published < room THEN data.published ELSE room
       IN sd' = IF data.size = 0 THEN seedUpsert(sd)
                ELSE seedLoop([sd EXCEPT !.collected = sd.collected + add,
                                         !.page = sd.page + 1])
    /\ UNCHANGED <<seedEnv, seedsLeft, lastUpdatedAtDate, gamesStore>>
    /\ UNCHANGED otherThanSync

\* One batch.commit() of upsertGames(finalList) returns.
SdUpsert ==
    /\ sd.pc = "upsert"
    /\ LET chunksIn == Chunks(sd.collected) - sd.left + 1
           n == IF chunksIn * chunkSize < sd.collected THEN chunksIn * chunkSize
                ELSE sd.collected
       IN gamesStore' = commitChunk(gamesStore, "seed", 0, n)
    /\ sd' = IF sd.left > 1 THEN [sd EXCEPT !.left = sd.left - 1] ELSE seedStamp(sd)
    /\ UNCHANGED <<seedEnv, seedsLeft, lastUpdatedAtDate>>
    /\ UNCHANGED otherThanSync

\* setLastSyncDate returns; seedNewestPublishedGames returns.
SdFinish ==
    /\ sd.pc = "setdate"
    /\ lastUpdatedAtDate' = sd.date
    /\ sd' = [sd EXCEPT !.pc = "done"]
    /\ UNCHANGED <<seedEnv, seedsLeft, gamesStore>>
    /\ UNCHANGED otherThanSync

\* An awaited call rejects: seedNewestPublishedGames throws.
SdFail ==
    /\ sd.pc \in {"fetch", "upsert", "setdate"}
    /\ sd' = [sd EXCEPT !.pc = "failed"]
    /\ UNCHANGED <<seedEnv, seedsLeft, lastUpdatedAtDate, gamesStore>>
    /\ UNCHANGED otherThanSync

\* Midnight UTC passes.
DayTick ==
    /\ today < MaxDay
    /\ today' = today + 1
    /\ UNCHANGED <<upstream, narrowed, beyond, maxSyncPages, rebuildCategories, sy, runsLeft,
                   pagesByFilter, sd, seedsLeft, lastUpdatedAtDate, gamesStore, rs>>
    /\ UNCHANGED otherThanSync

(***************************************************************************)
(* POST /api/admin/reset: deleteCollection("games", 300), then             *)
(* seedNewestPublishedGames({ target }), then the caches are dropped.      *)
(***************************************************************************)
RESET_BATCH == 300

IdleRs == [pc |-> "idle", target |-> 0, snap |-> {}, st |-> 0]

RECURSIVE DocCount(_)
\* The number of documents a set of stored records stands for.
DocCount(S) ==
    IF S = {} THEN 0
    ELSE LET d == CHOOSE x \in S : TRUE IN d.n + DocCount(S \ {d})

\* colRef.limit(batchSize).get(): the documents come with the records they
\* were written in, as many whole records as fit in batchSize.
limitGet(store, batchSize) ==
    {S \in SUBSET store :
        /\ DocCount(S) <= batchSize
        /\ \A d \in store \ S : DocCount(S \cup {d}) > batchSize}

\* What the steps of the reset handler leave alone.
resetEnv == <<upstream, narrowed, beyond, maxSyncPages, rebuildCategories, today,
              sy, runsLeft, pagesByFilter, seedsLeft, lastUpdatedAtDate>>

\* The handler to its first await: 401 unless the secret is right, else
\* deleteCollection issues its first read.
RsStart(secret, target) ==
    /\ rs.pc = "idle"
    /\ rs' = IF ~requireSecret(secret)
             THEN [IdleRs EXCEPT !.pc = "rejected", !.st = 401]
             ELSE [IdleRs EXCEPT !.pc = "wipeRead", !.target = target]
    /\ UNCHANGED <<resetEnv, gamesStore, sd>>
    /\ UNCHANGED otherThanSync

\* The read of deleteCollection returns: an empty snapshot ends the wipe and
\* the seed is called, else the batch delete of the snapshot is issued.
RsWipeRead ==
    /\ rs.pc = "wipeRead"
    /\ \E snap \in limitGet(gamesStore, RESET_BATCH) :
           IF snap = {}
           THEN /\ rs' = [rs EXCEPT !.pc = "seed"]
                /\ sd' = seedLoop([IdleSd EXCEPT !.target = rs.target, !.page = 1])
           ELSE /\ rs' = [rs EXCEPT !.pc = "wipeDelete", !.snap = snap]
                /\ UNCHANGED sd
    /\ UNCHANGED <<resetEnv, gamesStore>>
    /\ UNCHANGED otherThanSync

\* batch.commit() of the deletes returns; the next read is issued.
RsWipeDelete ==
    /\ rs.pc = "wipeDelete"
    /\ gamesStore' = gamesStore \ rs.snap
    /\ rs' = [rs EXCEPT !.pc = "wipeRead", !.snap = {}]
    /\ UNCHANGED <<resetEnv, sd>>
    /\ UNCHANGED otherThanSync

\* seedNewestPublishedGames returned: homeCache = null, gameCache.clear(),
\* and the answer { ok: true, info }.
RsFinish ==
    /\ rs.pc = "seed" /\ sd.pc = "done"
    /\ rs' = [rs EXCEPT !.pc = "done", !.st = 200]
    /\ homeCache' = NoCache
    /\ comps' = afterInvalidation
    /\ gameCache' = [id \in GameIds |-> NoCache]
    /\ UNCHANGED <<resetEnv, gamesStore, sd>>
    /\ UNCHANGED <<now, ticks, homeInFlight, homeCircuitUntil, hreq, hout, greq, gout,
                   storeVer, mut, mout, storageCalls, lastQuotaFailAt, gameReads>>
    /\ UNCHANGED <<envVars, catVars, botVars, mergeVars, normVars, upsertVars, pullVars>>

\* An awaited call of the wipe or the seed threw: the catch answers 500.
RsFail ==
    /\ \/ rs.pc \in {"wipeRead", "wipeDelete"}
       \/ rs.pc = "seed" /\ sd.pc = "failed"
    /\ rs' = [rs EXCEPT !.pc = "failed", !.st = 500, !.snap = {}]
    /\ UNCHANGED <<resetEnv, gamesStore, sd>>
    /\ UNCHANGED otherThanSync

\* No run with this filter has finished yet.
NotRun == 0 - 1

\* One runSync over any listing the upstream may serve.
InitSync ==
    /\ \/ upstream \in Upstreams /\ beyond = EmptyPage
       \/ upstream = <<>> /\ beyond = FullPage      \* a full page on every request
    /\ narrowed = [d \in Dates |-> upstream]
    /\ maxSyncPages \in SyncPageLimits
    /\ rebuildCategories \in BOOLEAN
    /\ lastUpdatedAtDate \in {NoDate, 1}
    /\ today = MaxDay
    /\ gamesStore = StoreAtStart
    /\ sy = IdleSy /\ runsLeft = 1
    /\ sd = IdleSd /\ seedsLeft = 0
    /\ rs = IdleRs
    /\ pagesByFilter = [f \in 0..MaxDay |-> NotRun]

NextSync ==
    \/ SyStart
    \/ SyLastDate
    \/ SyFetch
    \/ SyUpsert
    \/ SyRebuilt
    \/ SyFinish
    \/ SyFail

\* A listing of n records as a paginating upstream serves it.
paginate(n, withMeta) ==
    LET pages == (n + PER_PAGE - 1) \div PER_PAGE
    IN  [p \in 1..pages |->
            LET size == IF n - PER_PAGE * (p - 1) < PER_PAGE
                        THEN n - PER_PAGE * (p - 1) ELSE PER_PAGE
            IN Page(size, size, IF withMeta THEN pages ELSE NoLastPage)]
ListingSizes == {k * PER_PAGE + r : k \in 0..(MaxPages - 1), r \in {0, ShortPage.size}}

\* A filtered and an unfiltered run.
BothRuns == 2

\* Two runSync calls over a catalog of which the updated_at filter selects the
\* records updated since the date: fewer since today than since an earlier
\* day, and no more than the catalog holds.
InitIncremental ==
    /\ \E n \in ListingSizes, withMeta \in BOOLEAN, earlier \in ListingSizes, sinceToday \in ListingSizes :
           /\ sinceToday <= earlier /\ earlier <= n
           /\ upstream = paginate(n, withMeta)
           /\ narrowed = [d \in Dates |-> paginate(IF d < MaxDay THEN earlier ELSE sinceToday, withMeta)]
    /\ beyond = EmptyPage
    /\ maxSyncPages \in {DEFAULT_MAX_SYNC_PAGES, 2, HARD_PAGE_CAP}
    /\ rebuildCategories \in BOOLEAN
    /\ lastUpdatedAtDate \in Dates
    /\ today = MaxDay
    /\ gamesStore = StoreAtStart
    /\ sy = IdleSy /\ runsLeft = BothRuns
    /\ sd = IdleSd /\ seedsLeft = 0
    /\ rs = IdleRs
    /\ pagesByFilter = [f \in 0..MaxDay |-> NotRun]

\* runSync and seedNewestPublishedGames side by side, over midnight.
InitWatermark ==
    /\ upstream \in {<<ShortPage>>, <<FullPage, ShortPage>>} /\ beyond = EmptyPage
    /\ narrowed = [d \in Dates |-> upstream]
    /\ maxSyncPages \in {DEFAULT_MAX_SYNC_PAGES, 2}
    /\ rebuildCategories \in BOOLEAN
    /\ lastUpdatedAtDate = NoDate
    /\ today = 1
    /\ gamesStore = {}
    /\ sy = IdleSy /\ runsLeft = MaxSyncRuns
    /\ sd = IdleSd /\ seedsLeft = 1
    /\ rs = IdleRs
    /\ pagesByFilter = [f \in 0..MaxDay |-> NotRun]

\* One reset, with runSync calls by its side: the games collection holds
\* what an earlier sync stored.
InitReset ==
    /\ upstream \in {<<ShortPage>>, <<FullPage, ShortPage>>} /\ beyond = EmptyPage
    /\ narrowed = [d \in Dates |-> upstream]
    /\ maxSyncPages \in {DEFAULT_MAX_SYNC_PAGES, 2}
    /\ rebuildCategories \in BOOLEAN
    /\ lastUpdatedAtDate \in {NoDate, 1}
    /\ today = 1
    /\ gamesStore \in {StoreAtStart, StoreAtStart \cup {Stored("before", 2, PER_PAGE),
                                                       Stored("before", 3, ShortPage.size)}}
    /\ sy = IdleSy /\ runsLeft = 1
    /\ sd = IdleSd /\ seedsLeft = 0
    /\ rs = IdleRs
    /\ pagesByFilter = [f \in 0..MaxDay |-> NotRun]

NextReset ==
    \/ \E secret \in {syncSecret, "undefined"}, target \in SeedTargets : RsStart(secret, target)
    \/ RsWipeRead
    \/ RsWipeDelete
    \/ RsFinish
    \/ RsFail
    \/ SdFetch
    \/ SdUpsert
    \/ SdFinish
    \/ SdFail
    \/ NextSync

NextWatermark ==
    \/ NextSync
    \/ SdStart
    \/ SdFetch
    \/ SdUpsert
    \/ SdFinish
    \/ SdFail
    \/ DayTick

IdleSync ==
    /\ upstream = <<>> /\ beyond = EmptyPage
    /\ narrowed = [d \in Dates |-> <<>>]
    /\ maxSyncPages = DEFAULT_MAX_SYNC_PAGES
    /\ rebuildCategories = FALSE
    /\ lastUpdatedAtDate = NoDate
    /\ today = 1
    /\ gamesStore = {}
    /\ sy = IdleSy /\ runsLeft = 0
    /\ sd = IdleSd /\ seedsLeft = 0
    /\ rs = IdleRs
    /\ pagesByFilter = [f \in 0..MaxDay |-> NotRun]

(***************************************************************************)
(* The best list of GET /api/home: pinned games first (mergePinnedFirst).  *)
(***************************************************************************)
\* Ids of games in the store, and an id that no stored game has.
StoredIds  == {"A", "B", "C", "D"}
PinnableIds == StoredIds \cup {"X"}

Range(q) == {q[i] : i \in 1..Len(q)}
NoDup(q) == \A i, j \in 1..Len(q) : q[i] = q[j] => i = j

\* byUpdated: the loaded documents (one per id), in ranking order.
Rankings == {q \in SeqsUpTo(StoredIds, MaxDocs) : NoDup(q)}
\* meta/curation.bestPinnedIds: any list of ids.
PinnedLists == SeqsUpTo(PinnableIds, MaxPinned)

\* pinnedIds.indexOf(id)
indexOf(q, x) == IF x \in Range(q) THEN (CHOOSE i \in 1..Len(q) : q[i] = x /\ \A j \in 1..(i - 1) : q[j] # x) - 1
                 ELSE 0 - 1

\* docs.filter((g) => pinnedSet.has(String(g.id)))
\*     .sort((a, b) => pinnedIds.indexOf(a.id) - pinnedIds.indexOf(b.id))
pinnedDocsOf(docs, pinnedIds) ==
    LET kept == {g \in Range(docs) : g \in Range(pinnedIds)}
    IN  [k \in 1..Cardinality(kept) |->
            CHOOSE g \in kept :
                Cardinality({h \in kept : indexOf(pinnedIds, h) < indexOf(pinnedIds, g)}) = k - 1]

\* The for loop of mergePinnedFirst over the rest of the pool.
RECURSIVE mergeLoop(_, _, _, _)
mergeLoop(merged, pool, pinnedSet, limit) ==
    IF pool = <<>> THEN merged
    ELSE IF Len(merged) >= limit THEN merged
    ELSE IF Head(pool) \in pinnedSet THEN mergeLoop(merged, Tail(pool), pinnedSet, limit)
    ELSE mergeLoop(Append(merged, Head(pool)), Tail(pool), pinnedSet, limit)

slice(q, limit) == SubSeq(q, 1, IF Len(q) < limit THEN Len(q) ELSE limit)

mergePinnedFirst_poolOnly(pinnedDocs, poolDocs, limit) == slice(poolDocs, limit)

mergePinnedFirst(pinnedDocs, poolDocs, limit) ==
    slice(mergeLoop(pinnedDocs, poolDocs, Range(pinnedDocs), limit), limit)

IdleMg == [pc |-> "idle", byUpdated |-> <<>>, pinnedIds |-> <<>>, limit |-> 0,
           pinnedDocs |-> <<>>, bestMerged |-> <<>>]

\* getPinnedBestIds() returns; pinnedDocs is computed from the loaded docs.
MgPinned ==
    /\ mg.pc = "loaded"
    /\ mg' = [mg EXCEPT !.pc = "pinned",
                        !.pinnedDocs = IF Len(mg.pinnedIds) > 0
                                       THEN pinnedDocsOf(mg.byUpdated, mg.pinnedIds)
                                       ELSE <<>>]
    /\ UNCHANGED otherThanMerge

\* const bestMerged = mergePinnedFirst(pinnedDocs, byUpdated, limit)
MgMerge ==
    /\ mg.pc = "pinned"
    /\ mg' = [mg EXCEPT !.pc = "merged",
                        !.bestMerged = mergePinnedFirst(mg.pinnedDocs, mg.byUpdated, mg.limit)]
    /\ UNCHANGED otherThanMerge

\* The games query of a home computation has returned some ranking, the
\* curation document holds some pinned list; the limit is any small number
\* (the handler passes 50).
InitMerge ==
    \E r \in Rankings, p \in PinnedLists, l \in 0..MaxLimit :
        mg = [IdleMg EXCEPT !.pc = "loaded", !.byUpdated = r, !.pinnedIds = p, !.limit = l]

NextMerge ==
    \/ MgPinned
    \/ MgMerge

IdleMerge == mg = IdleMg

(***************************************************************************)
(* normalizeGame (sync.js): a raw upstream record to the stored record.    *)
(* Raw values are written as the JavaScript literals they are.             *)
(***************************************************************************)
\* g.published as the upstream may send it ("undefined": the field is missing).
RawPublished == {"true", "false", "1", "0", "2", "'1'", "'0'", "'true'", "'1.0'", "''",
                 "null", "undefined"}
\* g.rtp as the upstream may send it.
RawRtp == {"96", "97", "0", "'97'", "undefined"}
\* g.updated_at as the upstream may send it.
RawUpdatedAt == {"'2024-05-01'", "undefined"}

RawGames == [id : {"7"}, published : RawPublished, rtp : RawRtp, updated_at : RawUpdatedAt]

\* JavaScript truthiness of a raw value.
truthy(v) == v \notin {"false", "0", "''", "null", "undefined"}

\* const published = publishedRaw === true || publishedRaw === 1 || publishedRaw === "1";
publishedOf_truthy(publishedRaw) == truthy(publishedRaw)
publishedOf(publishedRaw) ==
    publishedRaw = "true" \/ publishedRaw = "1" \/ publishedRaw = "'1'"

\* const rtp = typeof g.rtp === "number" ? g.rtp : g.rtp ? Number(g.rtp) : null;
rtpOf(raw) ==
    IF raw \in {"96", "97", "0"} THEN raw
    ELSE IF truthy(raw) THEN (IF raw = "'97'" THEN "97" ELSE "NaN")
    ELSE "null"

normalizeGame(g) ==
    [id        |-> g.id,
     rtp       |-> rtpOf(g.rtp),
     updatedAt |-> IF truthy(g.updated_at) THEN g.updated_at ELSE "null",
     published |-> publishedOf(g.published),
     enabled   |-> publishedOf(g.published)]

NoGame == [id |-> "", rtp |-> "null", updatedAt |-> "null", published |-> FALSE, enabled |-> FALSE]
IdleNg == [pc |-> "idle", g |-> [id |-> "", published |-> "undefined", rtp |-> "undefined",
                                 updated_at |-> "undefined"], out |-> NoGame]

\* rawGames.map(normalizeGame): one record is normalized.
Normalize ==
    /\ ng.pc = "raw"
    /\ ng' = [ng EXCEPT !.pc = "done", !.out = normalizeGame(ng.g)]
    /\ UNCHANGED otherThanNorm

InitNorm == \E g \in RawGames : ng = [IdleNg EXCEPT !.pc = "raw", !.g = g]

NextNorm == Normalize

IdleNorm == ng = IdleNg

(***************************************************************************)
(* upsertGames (sync.js): batched merge writes into the games collection.  *)
(***************************************************************************)
\* Normalized records: the id and one representative field.
UpsertIds == {"7", "8"}
UpsertRecords == [id : UpsertIds, name : {"a", "b"}]
UpsertLists == {q \in SeqsUpTo(UpsertRecords, MaxBatch) :
                    /\ Len(q) > 0
                    /\ \A i, j \in 1..Len(q) : q[i].id = q[j].id => i = j}

\* A stored document: its key, the fields of the record, syncedAt, and a field
\* that no normalized record has.
Doc(key, name, syncedAt, other) == [key |-> key, name |-> name, syncedAt |-> syncedAt, other |-> other]
CollectionsAtStart == {{}, {Doc("7", "b", 0, "x")}}

\* firestore.collection("games").doc(String(g.id))
docRef_auto(g, coll) == ToString(Cardinality(coll))
docRef(g, coll) == g.id

\* batch.set(docRef, { ...g, syncedAt }, { merge: true }) as it is committed.
setMerge(coll, g, syncedAt) ==
    LET key  == docRef(g, coll)
        old  == {d \in coll : d.key = key}
        kept == IF old = {} THEN "" ELSE (CHOOSE d \in old : TRUE).other
    IN  (coll \ old) \cup {Doc(key, g.name, syncedAt, kept)}

RECURSIVE commitBatch(_, _, _)
commitBatch(coll, chunk, syncedAt) ==
    IF chunk = <<>> THEN coll
    ELSE commitBatch(setMerge(coll, Head(chunk), syncedAt), Tail(chunk), syncedAt)

\* games.slice(i, i + chunkSize)
chunkAt(games, i) ==
    SubSeq(games, i + 1, IF i + chunkSize < Len(games) THEN i + chunkSize ELSE Len(games))

IdleUp == [pc |-> "idle", games |-> <<>>, i |-> 0, syncedAt |-> 0, calls |-> 0, first |-> {}]

\* upsertGames(games) is called: the first batch is built and its commit awaited.
UpCall ==
    /\ up.pc \in {"called", "returned"}
    /\ up.calls < 2
    /\ up' = IF Len(up.games) = 0
             THEN [up EXCEPT !.pc = "returned", !.calls = up.calls + 1, !.first = gamesColl]
             ELSE [up EXCEPT !.pc = "commit", !.i = 0, !.syncedAt = upNow,
                             !.calls = up.calls + 1, !.first = gamesColl]
    /\ UNCHANGED <<gamesColl, upNow>>
    /\ UNCHANGED otherThanUpsert

\* batch.commit() returns: the next batch is built, or upsertGames returns.
UpCommit ==
    /\ up.pc = "commit"
    /\ gamesColl' = commitBatch(gamesColl, chunkAt(up.games, up.i), up.syncedAt)
    /\ up' = IF up.i + chunkSize < Len(up.games)
             THEN [up EXCEPT !.i = up.i + chunkSize, !.syncedAt = upNow]
             ELSE [up EXCEPT !.pc = "returned"]
    /\ UNCHANGED upNow
    /\ UNCHANGED otherThanUpsert

\* batch.commit() rejects: upsertGames throws.
UpFail ==
    /\ up.pc = "commit"
    /\ up' = [up EXCEPT !.pc = "thrown"]
    /\ UNCHANGED <<gamesColl, upNow>>
    /\ UNCHANGED otherThanUpsert

\* Time passes.
UpTick ==
    /\ upNow < MaxTicks
    /\ upNow' = upNow + 1
    /\ UNCHANGED <<gamesColl, up>>
    /\ UNCHANGED otherThanUpsert

InitUpsert ==
    /\ gamesColl \in CollectionsAtStart
    /\ \E q \in UpsertLists : up = [IdleUp EXCEPT !.pc = "called", !.games = q]
    /\ upNow = 1

NextUpsert ==
    \/ UpCall
    \/ UpCommit
    \/ UpFail
    \/ UpTick

IdleUpsert ==
    /\ gamesColl = {}
    /\ up = IdleUp
    /\ upNow = 0

(***************************************************************************)
(* POST /api/admin/best-games/pull (server.js): the requested names are    *)
(* matched against the upstream listing and the matched games are pinned.  *)
(* A name is the sequence of its characters.                               *)
(***************************************************************************)
PULL_MAX_PAGES == 400

\* .toLowerCase()
lowerCase(s) ==
    [i \in 1..Len(s) |-> CASE s[i] = "A" -> "a" [] s[i] = "B" -> "b" [] s[i] = "C" -> "c"
                         [] OTHER -> s[i]]

RECURSIVE ampToAnd(_)
\* .replace(/&/g, " and ")
ampToAnd(s) ==
    IF s = <<>> THEN <<>>
    ELSE (IF Head(s) = "&" THEN <<" ", "a", "n", "d", " ">> ELSE <<Head(s)>>) \o ampToAnd(Tail(s))

alnum(c) == c \in {"a", "b", "c", "d", "n", "0", "1"}

RECURSIVE nonAlnumToSpace(_)
\* .replace(/[^a-z0-9]+/g, " "): each run of other characters becomes one space
nonAlnumToSpace(s) ==
    IF s = <<>> THEN <<>>
    ELSE LET rest == nonAlnumToSpace(Tail(s))
         IN  IF alnum(Head(s)) THEN <<Head(s)>> \o rest
             ELSE IF Tail(s) # <<>> /\ ~alnum(Head(Tail(s))) THEN rest
             ELSE <<" ">> \o rest

\* .trim() (after the replacement there is at most one space at either end)
trim(s) ==
    LET a == IF s # <<>> /\ Head(s) = " " THEN Tail(s) ELSE s
    IN  IF a # <<>> /\ a[Len(a)] = " " THEN SubSeq(a, 1, Len(a) - 1) ELSE a

\* server.js:437-444  keyName (the last replace finds no run of spaces left)
keyName(s) == trim(nonAlnumToSpace(ampToAnd(lowerCase(s))))

\* x.includes(y)
includes(x, y) == \E i \in 1..(Len(x) - Len(y) + 1) : SubSeq(x, i, i + Len(y) - 1) = y

\* server.js:767-770  the fuzzy match of an upstream title and a wanted name
fuzzyOk(apiKey, key) == apiKey = key \/ includes(apiKey, key) \/ includes(key, apiKey)

\* Raw upstream games of the listing the pull scans.
RawGame(id, name, published) ==
    [id |-> id, name |-> name, published |-> published, rtp |-> "96", updated_at |-> "undefined"]
PullListings ==
    { << <<RawGame("1", <<"a", " ", "a", "n", "d", " ", " ", "B">>, p1), RawGame("2", <<"B">>, p2)>>,
         <<RawGame("3", <<"b", "-", "c">>, p3)>> >> : p1 \in {"true", "0"}, p2 \in {"1", "false"},
                                                       p3 \in {"true", "false"} }
\* req.body.names as the admin may send it (none: the default list).
DEFAULT_BEST_GAME_NAMES == << <<"b">> >>
PullNames ==
    { <<>>, << <<"A", "&", "b">> >>, << <<"b">>, <<"A", "&", "b">> >>,
      << <<"A", "&", "b">>, <<"C">> >>, << <<"C">> >>, << <<"d">> >> }

\* The wanted keys, in the order of the names.
wantedOf(names) == [i \in 1..Len(names) |-> keyName(names[i])]

\* server.js:772-777  one wanted name against one raw game
matchOne(fbk, g, key) ==
    IF fbk[key] # NoGame THEN fbk
    ELSE IF fuzzyOk(keyName(g.name), key) /\ normalizeGame(g).published
         THEN [fbk EXCEPT ![key] = normalizeGame(g)]
         ELSE fbk

RECURSIVE scanWanted(_, _, _)
\* for (const w of wanted)
scanWanted(fbk, g, wanted) ==
    IF wanted = <<>> THEN fbk
    ELSE scanWanted(matchOne(fbk, g, Head(wanted)), g, Tail(wanted))

RECURSIVE scanPage(_, _, _)
\* for (const g of rawGames)
scanPage(fbk, games, wanted) ==
    IF games = <<>> THEN fbk
    ELSE scanPage(scanWanted(fbk, Head(games), wanted), Tail(games), wanted)

\* foundByKey.size
sizeOf(fbk) == Cardinality({k \in DOMAIN fbk : fbk[k] # NoGame})

RECURSIVE foundOf_anyOrder(_, _)
foundOf_anyOrder(fbk, wanted) ==
    IF wanted = <<>> THEN <<>>
    ELSE foundOf_anyOrder(fbk, Tail(wanted)) \o
             (IF fbk[Head(wanted)] # NoGame THEN <<fbk[Head(wanted)]>> ELSE <<>>)

RECURSIVE foundOf(_, _)
\* server.js:790-797  found, in the order of wanted
foundOf(fbk, wanted) ==
    IF wanted = <<>> THEN <<>>
    ELSE (IF fbk[Head(wanted)] # NoGame THEN <<fbk[Head(wanted)]>> ELSE <<>>)
             \o foundOf(fbk, Tail(wanted))

idsOf(games) == [i \in 1..Len(games) |-> games[i].id]

IdlePl == [pc |-> "idle", names |-> <<>>, maxPages |-> 0, page |-> 0, fbk |-> <<>>,
           found |-> <<>>, st |-> 0]

\* After the loop: with a match upsertGames(found) is awaited, else the
\* handler answers at once.
pullAfter(p) ==
    LET found == foundOf(p.fbk, wantedOf(p.names))
    IN  IF Len(found) > 0 THEN [p EXCEPT !.pc = "upsert", !.found = found]
        ELSE [p EXCEPT !.pc = "done", !.st = 200]

\* while (page <= maxPages && foundByKey.size < wanted.length)
pullLoop(p) ==
    IF p.page <= p.maxPages /\ sizeOf(p.fbk) < Len(p.names)
    THEN [p EXCEPT !.pc = "fetch"]
    ELSE pullAfter(p)

\* What the steps of the pull leave alone, the last one excepted.
pullFrame == <<envVars, cacheVars, catVars, botVars, syncVars, mergeVars, normVars, upsertVars>>

\* The handler to its first await: 401 unless the secret is right.
PlStart(secret, names, maxPages) ==
    /\ pl.pc = "idle"
    /\ pl' = IF ~requireSecret(secret) THEN [IdlePl EXCEPT !.pc = "rejected", !.st = 401]
             ELSE LET used == IF Len(names) > 0 THEN names ELSE DEFAULT_BEST_GAME_NAMES
                  IN pullLoop([IdlePl EXCEPT
                                  !.names = used, !.maxPages = maxPages, !.page = 1,
                                  !.fbk = [k \in {keyName(used[i]) : i \in 1..Len(used)} |-> NoGame]])
    /\ UNCHANGED <<pullUpstream, pullStore, bestPinnedIds, wr>>
    /\ UNCHANGED pullFrame

\* A page fetch returns (the upstream sends no page totals, so the loop ends
\* on an empty page, on maxPages or when every name is matched).
PlFetch ==
    /\ pl.pc = "fetch"
    /\ LET rawGames == IF pl.page <= Len(pullUpstream) THEN pullUpstream[pl.page] ELSE <<>>
           scanned  == [pl EXCEPT !.fbk = scanPage(pl.fbk, rawGames, wantedOf(pl.names))]
       IN pl' = IF rawGames = <<>> THEN pullAfter(pl)
                ELSE pullLoop([scanned EXCEPT !.page = pl.page + 1])
    /\ UNCHANGED <<pullUpstream, pullStore, bestPinnedIds, wr>>
    /\ UNCHANGED pullFrame

\* upsertGames(found) returns (one batch); setPinnedBestIds is awaited.
PlUpsert ==
    /\ pl.pc = "upsert"
    /\ pullStore' = {d \in pullStore : \A i \in 1..Len(pl.found) : d.id # pl.found[i].id}
                        \cup {pl.found[i] : i \in 1..Len(pl.found)}
    /\ pl' = [pl EXCEPT !.pc = "pin"]
    /\ UNCHANGED <<pullUpstream, bestPinnedIds, wr>>
    /\ UNCHANGED pullFrame

\* setPinnedBestIds returns: homeCache = null, gameCache.clear(), and the
\* answer { ok: true, ... }.
PlPinned ==
    /\ pl.pc = "pin"
    /\ bestPinnedIds' = idsOf(pl.found)
    /\ homeCache' = NoCache
    /\ comps' = afterInvalidation
    /\ gameCache' = [id \in GameIds |-> NoCache]
    /\ pl' = [pl EXCEPT !.pc = "done", !.st = 200]
    /\ UNCHANGED <<pullUpstream, pullStore, wr>>
    /\ UNCHANGED <<now, ticks, homeInFlight, homeCircuitUntil, hreq, hout, greq, gout,
                   storeVer, mut, mout, storageCalls, lastQuotaFailAt, gameReads>>
    /\ UNCHANGED <<envVars, catVars, botVars, syncVars, mergeVars, normVars, upsertVars>>

\* An awaited call threw: the catch answers 500.
PlFail ==
    /\ pl.pc \in {"fetch", "upsert", "pin"}
    /\ pl' = [pl EXCEPT !.pc = "failed", !.st = 500]
    /\ UNCHANGED <<pullUpstream, pullStore, bestPinnedIds, wr>>
    /\ UNCHANGED pullFrame

(***************************************************************************)
(* runSync and seedNewestPublishedGames record by record: the raw games of *)
(* a page are normalized, filtered and written to the games collection.    *)
(* (The page loop of runSync in full is modelled above; here a run reads    *)
(* the listing the pull reads and writes the documents the pull writes.)   *)
(***************************************************************************)
mapNormalize(rawGames) == [i \in 1..Len(rawGames) |-> normalizeGame(rawGames[i])]

publishedOnlyOf_all(rawGames) == mapNormalize(rawGames)

\* part_002:255-256  rawGames.map(normalizeGame).filter((g) => g.published === true)
\* (the same expression in the seed, part_002:216)
publishedOnlyOf(rawGames) ==
    LET isPublished(g) == g.published = TRUE
    IN  SelectSeq(mapNormalize(rawGames), isPublished)

\* upsertGames(games), its commits taken together: each game replaces the
\* document of its id.
upserted(store, games) ==
    {d \in store : \A i \in 1..Len(games) : d.id # games[i].id}
        \cup {games[i] : i \in 1..Len(games)}

\* list.slice(0, n)
sliceTo(list, n) == SubSeq(list, 1, IF n < Len(list) THEN n ELSE Len(list))

IdleWr == [pc |-> "idle", who |-> "", page |-> 0, target |-> 0, raw |-> 0,
           lastPage |-> NoLastPage, batch |-> <<>>]

\* part_002:204  while (collected.length < target && page <= maxPages), and
\* after it upsertGames(collected.slice(0, target))
seedTurn(w) ==
    IF Len(w.batch) < w.target /\ w.page <= SEED_MAX_PAGES
    THEN [w EXCEPT !.pc = "fetch"]
    ELSE [w EXCEPT !.pc = "upsert", !.batch = sliceTo(w.batch, w.target)]

\* runSync or seedNewestPublishedGames is called; the first page is requested.
WrStart(who, target) ==
    /\ wr.pc \in {"idle", "done", "failed"}
    /\ wr' = IF who = "sync" THEN [IdleWr EXCEPT !.pc = "fetch", !.who = who, !.page = 1]
             ELSE seedTurn([IdleWr EXCEPT !.who = who, !.page = 1, !.target = target])
    /\ UNCHANGED <<pl, pullUpstream, pullStore, bestPinnedIds>>
    /\ UNCHANGED pullFrame

\* A page fetch returns. runSync: an empty page ends the loop, else the
\* published records are upserted. The seed: an empty page ends the loop,
\* else the published records are collected up to target.
WrFetch ==
    /\ wr.pc = "fetch"
    /\ LET rawGames == IF wr.page <= Len(pullUpstream) THEN pullUpstream[wr.page] ELSE <<>>
           some == Len(rawGames) > 0
           collected == wr.batch \o publishedOnlyOf(rawGames)
       IN wr' = IF wr.who = "sync"
                THEN IF some THEN [wr EXCEPT !.pc = "upsert", !.raw = Len(rawGames),
                                             !.batch = publishedOnlyOf(rawGames)]
                     ELSE [wr EXCEPT !.pc = "done"]
                ELSE IF some
                     THEN seedTurn([wr EXCEPT !.page = wr.page + 1,
                                     !.batch = sliceTo(collected, wr.target)])
                     ELSE [wr EXCEPT !.pc = "upsert", !.batch = sliceTo(wr.batch, wr.target)]
    /\ UNCHANGED <<pl, pullUpstream, pullStore, bestPinnedIds>>
    /\ UNCHANGED pullFrame

\* upsertGames returns. runSync goes on to the next page unless the stop
\* condition or a page ceiling ends the loop; the seed is over.
WrUpsert ==
    /\ wr.pc = "upsert"
    /\ pullStore' = upserted(pullStore, wr.batch)
    /\ wr' = IF wr.who = "sync" /\ ~stopCondition(wr) /\ ~pastCeiling(wr.page + 1)
             THEN [wr EXCEPT !.pc = "fetch", !.page = wr.page + 1, !.batch = <<>>]
             ELSE [wr EXCEPT !.pc = "done", !.batch = <<>>]
    /\ UNCHANGED <<pl, pullUpstream, bestPinnedIds>>
    /\ UNCHANGED pullFrame

\* An awaited call of the run threw.
WrFail ==
    /\ wr.pc \in {"fetch", "upsert"}
    /\ wr' = [wr EXCEPT !.pc = "failed", !.batch = <<>>]
    /\ UNCHANGED <<pl, pullUpstream, pullStore, bestPinnedIds>>
    /\ UNCHANGED pullFrame

\* Number(req.body?.target ?? 100) as the admin may send it.
WriterTargets == {1, 3}

\* runSync, the seed and the pull writing to one games collection.
NextWriters ==
    \/ \E who \in {"sync", "seed"}, target \in WriterTargets : WrStart(who, target)
    \/ WrFetch
    \/ WrUpsert
    \/ WrFail
    \/ \E names \in PullNames, maxPages \in {PULL_MAX_PAGES, 1} :
           PlStart(syncSecret, names, maxPages)
    \/ PlFetch
    \/ PlUpsert
    \/ PlPinned
    \/ PlFail

\* One pull against a store and a pinned list left by an earlier pull.
InitPull ==
    /\ pl = IdlePl
    /\ pullUpstream \in PullListings \cup {<<>>}
    /\ pullStore = {normalizeGame(RawGame("9", <<"z">>, "true"))}
    /\ bestPinnedIds = <<"9">>
    /\ wr = IdleWr

IdlePull ==
    /\ pl = IdlePl
    /\ pullUpstream = <<>>
    /\ pullStore = {}
    /\ bestPinnedIds = <<>>
    /\ wr = IdleWr

\* The pull, while one reader of each read endpoint fills the caches (their
\* reads succeed).
NextPull ==
    \/ \E secret \in {syncSecret, ""}, names \in PullNames, maxPages \in {PULL_MAX_PAGES, 1} :
           PlStart(secret, names, maxPages)
    \/ PlFetch
    \/ PlUpsert
    \/ PlPinned
    \/ PlFail
    \/ HomeArrive(1)
    \/ \E c \in 1..MaxComps : CompGamesOk(c)
    \/ \E c \in 1..MaxComps : CompSettleOk(c)
    \/ \E id \in GameIds : GameArrive(1, id)
    \/ \E x \in BOOLEAN : GameReadOk(1, x)

IdleCache == InitCache

InitHome == InitCache /\ IdleCat /\ IdleBot /\ IdleSync /\ IdleMerge /\ IdleNorm /\ IdleUpsert /\ IdlePull

Spec == InitHome /\ [][NextCache]_vars

SpecInv == InitHome /\ [][NextInv]_vars

SpecGame == InitHome /\ [][NextGame]_vars

SpecRead == InitHome /\ [][NextRead]_vars

InitAnySecret == InitSecrets /\ IdleCat /\ IdleBot /\ IdleSync /\ IdleMerge /\ IdleNorm /\ IdleUpsert /\ IdlePull

SpecAuth == InitAnySecret /\ [][NextAuth]_vars

InitCategories == InitCat /\ IdleCache /\ IdleBot /\ IdleSync /\ IdleMerge /\ IdleNorm /\ IdleUpsert /\ IdlePull

SpecCat == InitCategories /\ [][NextCat]_vars

InitBroadcast == InitBot /\ IdleCache /\ IdleCat /\ IdleSync /\ IdleMerge /\ IdleNorm /\ IdleUpsert /\ IdlePull

SpecBot == InitBroadcast /\ [][NextBot]_vars

InitBroadcastFanout == InitFanout /\ IdleCache /\ IdleCat /\ IdleSync /\ IdleMerge /\ IdleNorm /\ IdleUpsert /\ IdlePull

SpecFanout == InitBroadcastFanout /\ [][NextBot]_vars

InitTwoAdmins == InitAdmins /\ IdleCache /\ IdleCat /\ IdleSync /\ IdleMerge /\ IdleNorm /\ IdleUpsert /\ IdlePull

SpecAdmins == InitTwoAdmins /\ [][NextBot]_vars

InitRunSync == InitSync /\ IdleCache /\ IdleCat /\ IdleBot /\ IdleMerge /\ IdleNorm /\ IdleUpsert /\ IdlePull

SpecSync == InitRunSync /\ [][NextSync]_vars

InitResetAndSync == InitReset /\ IdleCache /\ IdleCat /\ IdleBot /\ IdleMerge /\ IdleNorm /\ IdleUpsert /\ IdlePull

SpecReset == InitResetAndSync /\ [][NextReset]_vars

InitPullAndReads == InitPull /\ InitCache /\ IdleCat /\ IdleBot /\ IdleSync /\ IdleMerge /\ IdleNorm /\ IdleUpsert

SpecPull == InitPullAndReads /\ [][NextPull]_vars

SpecWriters == InitPullAndReads /\ [][NextWriters]_vars

InitSyncAndSeed == InitWatermark /\ IdleCache /\ IdleCat /\ IdleBot /\ IdleMerge /\ IdleNorm /\ IdleUpsert /\ IdlePull

SpecWatermark == InitSyncAndSeed /\ [][NextWatermark]_vars

InitTwoSyncs == InitIncremental /\ IdleCache /\ IdleCat /\ IdleBot /\ IdleMerge /\ IdleNorm /\ IdleUpsert /\ IdlePull

SpecIncremental == InitTwoSyncs /\ [][NextSync]_vars

\* One runSync with no watermark stored yet, under the default, a small and
\* an over-large MAX_SYNC_PAGES.
InitPageLoop ==
    /\ InitSync
    /\ lastUpdatedAtDate = NoDate
    /\ maxSyncPages \in {DEFAULT_MAX_SYNC_PAGES, 2, HARD_PAGE_CAP + 1}

InitLoopOnly == InitPageLoop /\ IdleCache /\ IdleCat /\ IdleBot /\ IdleMerge /\ IdleNorm /\ IdleUpsert /\ IdlePull

\* Every awaited call of runSync settles in the end.
SpecSyncFair == InitLoopOnly /\ [][NextSync]_vars /\ WF_vars(NextSync)

InitBest == InitMerge /\ IdleCache /\ IdleCat /\ IdleBot /\ IdleSync /\ IdleNorm /\ IdleUpsert /\ IdlePull

SpecMerge == InitBest /\ [][NextMerge]_vars

InitNormalize == InitNorm /\ IdleCache /\ IdleCat /\ IdleBot /\ IdleSync /\ IdleMerge /\ IdleUpsert /\ IdlePull

SpecNorm == InitNormalize /\ [][NextNorm]_vars

InitUpsertGames == InitUpsert /\ IdleCache /\ IdleCat /\ IdleBot /\ IdleSync /\ IdleMerge /\ IdleNorm /\ IdlePull

SpecUpsert == InitUpsertGames /\ [][NextUpsert]_vars

(***************************************************************************)
(* Claims about the response cache layer.                                  *)
(***************************************************************************)
WaitingReqs == {r \in HomeReqs : hreq[r].pc = "waiting"}

\* C1: however many GET /api/home requests arrive while the cache is absent
\* or expired and the circuit is closed, with no computation settling in
\* between, exactly one home computation (one games query) is pending, it
\* is the one homeInFlight holds, and every waiting request awaits it.
C1_OneComputation ==
    /\ Cardinality(PendingComps) <= 1
    /\ \A r \in WaitingReqs :
         /\ homeInFlight # 0
         /\ PendingComps = {homeInFlight}
         /\ hreq[r].comp = homeInFlight

\* Two requests wait on the one computation started for an expired entry.
C1_Witness ==
    /\ Cardinality(WaitingReqs) = 2
    /\ Cardinality(PendingComps) = 1
    /\ homeCache # NoCache /\ ~homeFresh /\ ~circuitOpen

\* The cooldown window of the claim: the 60 s after a quota-classified
\* failure of a home computation.
InCooldownWindow ==
    /\ lastQuotaFailAt >= 0
    /\ now < lastQuotaFailAt + HOME_COOLDOWN_MS

\* C2: a GET /api/home request arriving within 60 s after a home computation
\* failed with a quota error makes no storage call (starts no computation,
\* awaits none) and is answered at once: with the cached home value if one
\* exists, with 503 otherwise.
C2_CircuitSkipsStorage ==
    [][\A r \in HomeReqs :
          (InCooldownWindow /\ HomeArrive(r)) =>
             /\ storageCalls' = storageCalls
             /\ comps' = comps
             /\ hreq'[r].pc = "idle"
             /\ hout'.to = {r}
             /\ IF homeCache # NoCache
                THEN hout'.resp.st = 200 /\ hout'.resp.data = homeCache.data
                ELSE hout'.resp.st = 503 /\ hout'.resp.data = NoData]_vars

\* A request in the window has just been served the expired cached value.
C2_Witness ==
    /\ InCooldownWindow
    /\ hout.to # {}
    /\ hout.resp.src = "circuit"
    /\ hout.resp.st = 200
    /\ ~homeFresh

\* C3 (as claimed): a request whose 2.5 s timer fires before the computation
\* settles is answered with the stale cached value if one exists, and with
\* an error only when none exists.
C3_TimeoutServesStale ==
    [][\A r \in HomeReqs :
          HomeTimeout(r) =>
             IF homeCache # NoCache
             THEN hout'.resp.st = 200 /\ hout'.resp.data = homeCache.data
             ELSE hout'.resp.st = 503]_vars

\* C4 (as claimed): when a mutating endpoint that wrote to the catalog has
\* just answered 200, neither the home cache nor any game-by-id entry still
\* holds a value cached before that operation began.
C4_NoPreMutationEntry ==
    (mout.kind # "none" /\ mout.wrote) =>
        /\ ~homeCache.pre
        /\ \A id \in GameIds : ~gameCache[id].pre

(***************************************************************************)
(* Claims about the category rebuild.                                      *)
(***************************************************************************)
RebuildRunning == rb.pc # "idle"

\* C5 (as stated): while a rebuild is running, a reader that reads a
\* category's activeRunId and then that run's items never obtains an empty
\* item list for a bucket whose previously active run still has items.
C5_NeverEmptyWhilePriorHasItems ==
    (RebuildRunning /\ rdout.cat # "" /\ rdout.items = <<>>)
        => \/ prevActive[rdout.cat] = 0
           \/ runItems[rdout.cat][prevActive[rdout.cat]] = {}

\* C5 (amended): the activeRunId of a category only ever refers to a run
\* whose items are completely written, and a reader that reads a category's
\* activeRunId and then that run's items obtains exactly the list the
\* rebuild of that run computed for the bucket (its first 50 entries),
\* whatever the rebuild has done in between; it obtains an empty list only
\* when no run is active or that run's computed list is empty.
C5_ReaderGetsCommittedRun ==
    /\ \A c \in CatIds :
          catActive[c] # 0 => orderByRank(runItems[c][catActive[c]]) = computed[catActive[c]][c]
    /\ (rdout.cat # "" /\ rdout.run # 0)
          => rdout.items = Take(computed[rdout.run][rdout.cat], READER_LIMIT)
    /\ (rdout.cat # "" /\ rdout.items = <<>>)
          => (rdout.run = 0 \/ computed[rdout.run][rdout.cat] = <<>>)

\* A reader read the pointer of a bucket, the running rebuild then flipped
\* it to its own run, and the reader obtained the items of the run it had
\* read, all of them.
C5_Witness ==
    /\ rb.pc = "commit"
    /\ rdout.cat # "" /\ rdout.run # 0
    /\ rdout.run = prevActive[rdout.cat]
    /\ catActive[rdout.cat] = rb.runId
    /\ rdout.items # <<>>

(***************************************************************************)
(* Claims about the broadcast bot.                                         *)
(***************************************************************************)
NonAdmins == ChatIds \ ADMIN_USER_IDS

\* C6: a /broadcast command from a chat that is not in the admin list leaves
\* the draft state map unchanged, and all the sender gets is the rejection
\* message.
C6_NonAdminBroadcastNoState ==
    [][/\ \A chat \in NonAdmins, msg \in Messages :
            (matchesBroadcast(msg.text) /\ MessageUpdate(chat, msg)) =>
                /\ broadcastState' = broadcastState
                /\ tasks' = tasks (+) SetToBag({Task("reject", chat, NoPayload)})
       /\ \A task \in PendingTasks, ok \in BOOLEAN :
            (task.pc = "reject" /\ BroadcastReplySettles(task, ok)) =>
                /\ broadcastState' = broadcastState
                /\ lastSend'.to = task.chat /\ lastSend'.what = "reject"
                /\ tasks' = tasks (-) SetToBag({task})
       /\ \A chat \in NonAdmins : broadcastState'[chat] = IdleState]_vars

\* A non-admin has been sent the rejection while an admin's draft is open;
\* the non-admin has no entry.
C6_Witness ==
    /\ lastSend.what = "reject" /\ lastSend.to \in NonAdmins /\ lastSend.ok
    /\ \E a \in ADMIN_USER_IDS : broadcastState[a].step = "waiting_for_message"
    /\ \A chat \in NonAdmins : broadcastState[chat] = IdleState

WaitingAdmin(chat) ==
    chat \in ADMIN_USER_IDS /\ broadcastState[chat].step = "waiting_for_message"

C8_DeclineAlwaysIdle ==
    [][\A chat \in ADMIN_USER_IDS :
        CallbackUpdate(chat, "decline_broadcast") => broadcastState'[chat] = IdleState]_vars

\* C8 (amended): a decline_broadcast callback processed for an admin chat
\* that is confirming removes the chat's entry and has the cancellation
\* notice sent to that chat; processed in any other state it changes no
\* draft state and starts nothing. Either way no user list is read and no
\* payload is sent to anyone.
C8_DeclineFromConfirming ==
    [][/\ \A chat \in ADMIN_USER_IDS :
            CallbackUpdate(chat, "decline_broadcast") =>
                /\ IF broadcastState[chat].step = "confirming"
                   THEN /\ broadcastState'[chat] = IdleState
                        /\ tasks' = tasks (+) SetToBag({Task("cancelNotice", chat, NoPayload)})
                   ELSE /\ broadcastState'[chat] = broadcastState[chat]
                        /\ tasks' = tasks
                /\ \A other \in ChatIds \ {chat} : broadcastState'[other] = broadcastState[other]
                /\ users' = users /\ lastSend' = NoSend
       /\ \A task \in PendingTasks, ok \in BOOLEAN :
            (task.pc = "cancelNotice" /\ CancelNoticeSettles(task, ok)) =>
                /\ lastSend'.what = "cancelled" /\ lastSend'.to = task.chat
                /\ tasks' = tasks (-) SetToBag({task})
                /\ broadcastState' = broadcastState]_vars

\* A decline has just been processed for a confirming admin chat while a
\* user is registered: the entry is gone and only the notice is awaited.
C8_Witness ==
    /\ lastUpdate.kind = "callback" /\ lastUpdate.data = "decline_broadcast"
    /\ lastUpdate.chat \in ADMIN_USER_IDS
    /\ broadcastState[lastUpdate.chat] = IdleState
    /\ users # {}
    /\ \E task \in PendingTasks : task.pc = "cancelNotice" /\ task.chat = lastUpdate.chat

(***************************************************************************)
(* Claims about runSync.                                                   *)
(***************************************************************************)
\* C9: when upstream returns two pages of 150 records and then one page of
\* 10, with no last_page in the metadata and every record published,
\* runSync fetches exactly three pages and returns totalFetched = 310.
C9_ThreePages310 ==
    (upstream = <<FullPage, FullPage, ShortPage>> /\ sy.pc = "done")
        => (sy.fetched = 3 /\ sy.totalFetched = 310)

(***************************************************************************)
(* Claims about the pinned-first merge.                                    *)
(***************************************************************************)
\* The list the rule describes, built without the code's loop: the pinned
\* ids that are loaded games, each once, in the order of their first
\* occurrence in the curated list; then the ranking without them; cut at L.
RECURSIVE Dedup(_)
Dedup(q) == IF q = <<>> THEN <<>>
            ELSE LET front == Dedup(SubSeq(q, 1, Len(q) - 1))
                     last == q[Len(q)]
                 IN IF last \in Range(front) THEN front ELSE Append(front, last)

PinnedGames == Dedup(SelectSeq(mg.pinnedIds, LAMBDA x : x \in Range(mg.byUpdated)))
RuleList == LET rest == SelectSeq(mg.byUpdated, LAMBDA x : x \notin Range(PinnedGames))
                all == PinnedGames \o rest
            IN SubSeq(all, 1, IF Len(all) < mg.limit THEN Len(all) ELSE mg.limit)

PublishedTrue == {"true", "1", "'1'"}

UpsertedTwice == up.calls = 2 /\ up.pc = "returned"

\* The documents without their syncedAt stamp.
WithoutSyncedAt(coll) == {[d EXCEPT !.syncedAt = 0] : d \in coll}

\* C12 as stated: after the second upsert of the same records the games
\* collection is in the state the first upsert left.
C12_SameStateTwice == UpsertedTwice => gamesColl = up.first

\* C12, amended: after the second upsert of the same records the collection
\* holds the documents the first upsert left, one per id and with the same
\* field values, except that syncedAt is the time of the second upsert.
C12_SameExceptSyncedAt ==
    UpsertedTwice =>
        /\ WithoutSyncedAt(gamesColl) = WithoutSyncedAt(up.first)
        /\ \A d1, d2 \in gamesColl : d1.key = d2.key => d1 = d2
        /\ \A i \in 1..Len(up.games) :
               \E d \in gamesColl : d.key = up.games[i].id /\ d.name = up.games[i].name

\* The same list was upserted twice at different times, over a document that
\* existed before.
C12_Witness ==
    /\ UpsertedTwice
    /\ gamesColl # up.first
    /\ \E d \in gamesColl : d.other = "x" /\ d.name = "a"

(***************************************************************************)
(* Claims about the sync watermark and the page loop of runSync.           *)
(***************************************************************************)
\* C13: a runSync that filters by the stored watermark fetches no more pages
\* than a runSync over the same upstream state with the filter omitted.
C13_IncrementalFetchesNoMore ==
    \A d \in Dates :
        (pagesByFilter[d] # NotRun /\ pagesByFilter[NoDate] # NotRun)
            => pagesByFilter[d] <= pagesByFilter[NoDate]

\* An incremental and a full run have finished, the incremental one with
\* fewer pages.
C13_Witness ==
    \E d \in Dates :
        /\ pagesByFilter[d] # NotRun
        /\ pagesByFilter[NoDate] # NotRun
        /\ pagesByFilter[d] < pagesByFilter[NoDate]
        /\ pagesByFilter[d] > 1

\* C14: a runSync aborted by an exception leaves the stored watermark what it
\* was before the run; the watermark is written only by the setLastSyncDate
\* call that follows a page loop that ended without an exception.
C14_AbortKeepsWatermark ==
    /\ []((sy.pc = "failed" /\ sy.thrownAt # "start") => lastUpdatedAtDate = sy.lastDate)
    /\ [][lastUpdatedAtDate' # lastUpdatedAtDate
            => (sy.pc = "setdate" /\ sy.stop # "" /\ sy'.pc = "done")]_vars

\* The category rebuild failed after pages were committed; the watermark is
\* the one the run read.
C14_Witness ==
    /\ sy.pc = "failed" /\ sy.thrownAt = "rebuild"
    /\ sy.totalFetched > PER_PAGE
    /\ sy.lastDate = 1 /\ lastUpdatedAtDate = 1 /\ today = 2

\* C15 as stated: every runSync, one that ended by a failed page fetch or
\* upsert included, has persisted the current UTC date as the watermark when
\* it ends.
C15_EveryRunStamps ==
    [][(sy.pc \in {"fetch", "upsert", "setdate"} /\ sy'.pc \in {"done", "failed"})
            => lastUpdatedAtDate' = today']_vars

\* C15: every runSync whose page loop ends without an exception, whatever
\* stop condition ended it, takes the current UTC date when the loop (and the
\* category rebuild, if enabled) is over and persists it as the watermark; a
\* run that a failed page fetch or upsert aborted persists nothing.
C15_CompletedRunStamps ==
    /\ [][(sy.pc \in {"upsert", "fetch", "rebuild"} /\ sy'.pc = "setdate")
            => (sy'.date = today /\ sy'.stop \in {"empty", "lastPage", "short", "ceiling"})]_vars
    /\ [][(sy.pc = "setdate" /\ sy'.pc = "done") => lastUpdatedAtDate' = sy.date]_vars
    /\ [][(sy.pc \in {"fetch", "upsert"} /\ sy'.pc = "failed")
            => lastUpdatedAtDate' = lastUpdatedAtDate]_vars

\* A run that stopped at the page ceiling has moved the watermark from none
\* to the date of the day.
C15_Witness ==
    /\ sy.pc = "done" /\ sy.stop = "ceiling"
    /\ sy.lastDate = NoDate /\ sy.date = today
    /\ lastUpdatedAtDate = today

\* C16: the stored watermark never decreases, whatever runSync and
\* seedNewestPublishedGames executions interleave, the clock moving forward.
C16_WatermarkNeverDecreases ==
    [][lastUpdatedAtDate' >= lastUpdatedAtDate]_vars

\* The most pages one runSync may fetch: MAX_SYNC_PAGES, and 2000 at most.
PageCeiling == IF maxSyncPages < HARD_PAGE_CAP THEN maxSyncPages ELSE HARD_PAGE_CAP
InPageLoop == sy.pc \in {"fetch", "upsert"}

\* C17: the page loop of runSync ends for every upstream, one that serves a
\* full page on every request and declares no last page included; it ends on
\* an empty page, on the declared last page, on a short page when no last
\* page is known, or on the page ceiling, and fetches no more pages than the
\* ceiling.
C17_PageLoopTerminates ==
    /\ InPageLoop ~> ~InPageLoop
    /\ [](sy.fetched <= PageCeiling)
    /\ [](sy.pc \in {"rebuild", "setdate", "done"}
            => sy.stop \in {"empty", "lastPage", "short", "ceiling"})
    /\ [](sy.stop = "empty" => fetchGamesPage(sy.page, sy.updatedAt).size = 0)
    /\ [](sy.stop = "lastPage" => (sy.lastPage # NoLastPage /\ sy.page >= sy.lastPage))
    /\ [](sy.stop = "short" => (sy.lastPage = NoLastPage /\ sy.raw < PER_PAGE))
    /\ [](sy.stop = "ceiling" => (sy.fetched = PageCeiling /\ sy.raw = PER_PAGE))

\* The upstream serves a full page on every request and declares no last
\* page; the loop ended on the ceiling after MAX_SYNC_PAGES = 2 pages.
C17_Witness ==
    /\ sy.pc = "done" /\ sy.stop = "ceiling"
    /\ upstream = <<>> /\ beyond = FullPage
    /\ maxSyncPages = 2 /\ sy.fetched = 2 /\ sy.totalFetched = 2 * PER_PAGE

\* C18: within one runSync at most one call is outstanding at any moment,
\* a page fetch or a chunk commit, and while the fetch of a page is
\* outstanding every chunk of every earlier page with published records is in
\* the store.
C18_StrictlySequential ==
    /\ Cardinality(sy.ops) <= 1
    /\ \A op \in sy.ops :
           op.kind = "fetch" =>
               \A p \in 1..(op.page - 1) :
                   LET n == fetchGamesPage(p, sy.updatedAt).published
                   IN  n > 0 => Stored("sync", p, n) \in gamesStore

\* The fetch of page 3 is outstanding; pages 1 and 2 are stored.
C18_Witness ==
    /\ sy.pc = "fetch" /\ sy.page = 3
    /\ Op("fetch", 3, 0) \in sy.ops
    /\ Stored("sync", 1, PER_PAGE) \in gamesStore
    /\ Stored("sync", 2, PER_PAGE) \in gamesStore

\* C19: a failed page fetch aborts runSync with the error surfaced to the
\* caller (the handler answers 500), the step that fails changes no stored
\* game record, and every published record of the pages before the failing
\* one is stored as this run wrote it.
C19_FailedFetchKeepsCommitted ==
    /\ [][sy'.pc = "failed" => gamesStore' = gamesStore]_vars
    /\ []((sy.pc = "failed" /\ sy.thrownAt = "fetch") =>
            /\ sy.resp = 500
            /\ \A p \in 1..(sy.page - 1) :
                   LET n == fetchGamesPage(p, sy.updatedAt).published
                   IN  n > 0 => Stored("sync", p, n) \in gamesStore)

\* The fetch of page 3 failed; pages 1 and 2 are stored as the run wrote them.
C19_Witness ==
    /\ sy.pc = "failed" /\ sy.thrownAt = "fetch" /\ sy.page = 3
    /\ sy.resp = 500
    /\ Stored("sync", 1, PER_PAGE) \in gamesStore
    /\ Stored("sync", 2, PER_PAGE) \in gamesStore
    /\ Stored("before", 1, PER_PAGE) \notin gamesStore

(***************************************************************************)
(* Claims about the fan-out of an approved broadcast.                      *)
(***************************************************************************)
\* The recipients of the sends a fan-out has tried, in order, and how many
\* of the sends succeeded.
TriedIds(task) == [i \in 1..Len(task.tried) |-> task.tried[i].to]
Delivered(task) == Cardinality({i \in 1..Len(task.tried) : task.tried[i].ok})

\* C20: in an approved broadcast a failed delivery does not stop the
\* deliveries to the remaining recipients: every loaded user id gets exactly
\* one delivery attempt, and the count reported to the admin is the number of
\* recipients whose delivery succeeded.
C20_EveryRecipientOneAttempt ==
    \A task \in PendingTasks :
        /\ task.pc = "deliver" =>
               /\ TriedIds(task) \o task.todo = task.loaded
               /\ task.sent = Delivered(task)
        /\ task.pc = "report" =>
               /\ TriedIds(task) = task.loaded
               /\ task.sent = Delivered(task)

(***************************************************************************)
(* Claims about the draft state machine of the broadcast bot, continued.   *)
(***************************************************************************)
\* C21: when an admin chat is waiting_for_message and a message of no
\* supported kind arrives, the handler has the "Unsupported message type"
\* reply sent to the admin, the chat's state is idle once that reply has
\* settled, and no echo and no confirm prompt is sent for the message.
C21_UnsupportedAbortsToIdle ==
    /\ [][\A chat \in ChatIds, msg \in Messages :
            (/\ WaitingAdmin(chat) /\ ~isCommand(msg.text) /\ msgKinds(msg) = {}
             /\ MessageUpdate(chat, msg)) =>
                \E task \in BagToSet(tasks') :
                    /\ task.pc = "unsupported" /\ task.chat = chat
                    /\ CopiesIn(task, tasks') = CopiesIn(task, tasks) + 1
                    /\ BagCardinality(tasks') = BagCardinality(tasks) + 1]_vars
    /\ [](lastSend.what = "unsupported" =>
            (isAdmin(lastSend.to) /\ broadcastState[lastSend.to] = IdleState))
    /\ [](\A task \in PendingTasks :
            task.pc \in {"echo", "confirm"} => sendKind(task.payload) # "none")
    /\ [](lastSend.what \in {"echo", "confirm"} => lastSend.kind # "none")

\* The error reply to the admin has settled and the chat is idle, nothing
\* else awaiting.
C21_Witness ==
    /\ lastSend.what = "unsupported" /\ lastSend.ok /\ lastSend.to \in ADMIN_USER_IDS
    /\ broadcastState[lastSend.to] = IdleState
    /\ tasks = EmptyBag

\* The handler invocations a step adds to those awaiting, and those it
\* settles.
Spawned == {task \in BagToSet(tasks') : CopiesIn(task, tasks') > CopiesIn(task, tasks)}
Settled == {task \in BagToSet(tasks) : CopiesIn(task, tasks') < CopiesIn(task, tasks)}

\* C22: the draft state is kept per admin chat. An update processed for chat
\* A, and every later step of a handler started for chat A, leaves the step
\* and payload of every other admin chat B unchanged; the handler a callback
\* from chat A starts (the fan-out of an approval, the notice of a decline)
\* is for chat A's draft.
C22_DraftPerAdminChat ==
    [][/\ \A B \in ADMIN_USER_IDS :
            broadcastState'[B] # broadcastState[B] =>
                \/ lastUpdate'.kind # "" /\ lastUpdate'.chat = B
                \/ lastUpdate'.kind = "" /\ \E task \in Settled : task.chat = B
       /\ lastUpdate'.kind # "" => \A task \in Spawned : task.chat = lastUpdate'.chat
       /\ (lastUpdate'.kind = "callback" /\ lastUpdate'.chat \in ADMIN_USER_IDS) =>
            \A task \in Spawned :
                /\ broadcastState[task.chat].step = "confirming"
                /\ task.pc = "loadUsers" => task.payload = broadcastState[task.chat].payload]_vars

\* Admin chat 3 has just approved its own draft while admin chat 1 has a
\* different draft in confirmation, which is still there.
C22_Witness ==
    /\ lastUpdate = [kind |-> "callback", chat |-> 3, data |-> "approve_broadcast"]
    /\ broadcastState[3] = IdleState
    /\ broadcastState[1].step = "confirming"
    /\ \E task \in PendingTasks :
           /\ task.pc = "loadUsers" /\ task.chat = 3
           /\ task.payload # broadcastState[1].payload

\* C23: the echo to the admin and the delivery to each recipient both send
\* the first kind set in the captured payload, in the order text, photo,
\* video, video_note, document, audio; so every recipient is sent the kind
\* that the admin was echoed.
C23_FirstKindEchoedAndDelivered ==
    [][\A task \in Settled :
        /\ task.pc = "echo" =>
               /\ lastSend'.what = "echo" /\ lastSend'.to = task.chat
               /\ lastSend'.kind = sendKind(task.payload)
        /\ task.pc = "deliver" =>
               /\ lastSend'.what = "payload" /\ lastSend'.to = Head(task.todo)
               /\ lastSend'.kind = sendKind(task.payload)
               /\ lastSend'.kind = echoKind(task.payload)]_vars

\* A draft with a text and a photo has been delivered to a user as text.
C23_Witness ==
    /\ lastSend.what = "payload" /\ lastSend.kind = "text" /\ lastSend.to = 2
    /\ \E task \in PendingTasks :
           /\ task.pc = "report"
           /\ kindsSet(task.payload) = {1, 2}

(***************************************************************************)
(* Claims about the read endpoints and their caches, continued.            *)
(***************************************************************************)
\* C24: when the storage read behind GET /api/home or GET /api/games/:id
\* fails with a quota-classified error while the cache holds a value for the
\* key, expired or not, the request is answered 200 with a cached value.
C24_QuotaFailureServesCached ==
    [][/\ \A c \in 1..MaxComps, e \in StorageErrors :
            (isQuotaError(e) /\ CompSettleFail(c, e) /\ homeCache # NoCache) =>
                /\ hout'.resp.st = 200
                /\ hout'.resp.data = homeCache.data
       /\ \A r \in GameReqs, e \in StorageErrors :
            (isQuotaError(e) /\ GameReadFail(r, e) /\ gameCache[greq[r].id] # NoCache) =>
                /\ gout'.st = 200
                /\ gout'.data \in {gameCache[greq[r].id].data} \cup
                       (IF greq[r].cached = NoCache THEN {} ELSE {greq[r].cached.data})]_vars

\* C25: a GET /api/home or GET /api/games/:id request arriving while the
\* cached entry of its key is younger than ten minutes is answered 200 with
\* the cached value and issues no storage read and no computation, whether or
\* not the circuit is open or a computation or read is in flight.
TenMinutes == 10 * 60 * 1000

C25_FreshServedWithoutRead ==
    [][/\ \A r \in HomeReqs :
            (/\ homeCache # NoCache /\ now - homeCache.ts < TenMinutes
             /\ HomeArrive(r)) =>
                /\ hout' = [to |-> {r}, resp |-> Resp(200, homeCache.data, "", "fresh")]
                /\ storageCalls' = storageCalls
                /\ comps' = comps /\ homeInFlight' = homeInFlight /\ hreq' = hreq
       /\ \A r \in GameReqs, id \in GameIds :
            (/\ gameCache[id] # NoCache /\ now - gameCache[id].ts < TenMinutes
             /\ GameArrive(r, id)) =>
                /\ gout'.st = 200 /\ gout'.data = gameCache[id].data
                /\ storageCalls' = storageCalls
                /\ gameReads' = gameReads /\ greq' = greq]_vars

\* A game request was served from the fresh entry while the read of another
\* request for the same id is still in flight, and the home cache is fresh.
C25_Witness ==
    /\ gout.src = "fresh" /\ gout.st = 200
    /\ \E r \in GameReqs : greq[r].pc = "reading" /\ greq[r].id = "g1"
    /\ homeCache # NoCache /\ now - homeCache.ts < TenMinutes

\* C26: rebuilds of the game-by-id cache are coalesced per key: of the
\* concurrent GET /api/games/:id requests for one id whose entry is absent or
\* expired, at most one has a storage read in flight.
C26_OneGameReadInFlight ==
    \A id \in GameIds :
        Cardinality({r \in GameReqs : greq[r].pc = "reading" /\ greq[r].id = id}) <= 1

(***************************************************************************)
(* Claims about the secret of the mutating endpoints.                      *)
(***************************************************************************)
\* C27: a POST to /api/sync, /api/admin/reset or /api/admin/best-games/pull
\* whose x-sync-secret header is missing, empty or different from the
\* configured secret is answered 401 and starts no work: no fetch, no write
\* or delete, no invalidation; also when SYNC_SECRET is not set or empty.
C27_WrongSecretRejected ==
    [][\A k \in MutKinds, secret \in Secrets :
          (/\ secret = "undefined" \/ secret = "" \/ secret # syncSecret
           /\ MutStart(k, secret)) =>
              /\ mout' = [kind |-> k, wrote |-> FALSE, st |-> 401]
              /\ UNCHANGED <<mut, storeVer, homeCache, gameCache, homeInFlight,
                             homeCircuitUntil, storageCalls>>]_vars

\* A request without the header was answered 401 by a server without a
\* configured secret, with both caches filled and left as they were.
C27_Witness ==
    /\ syncSecret = "undefined"
    /\ mout.st = 401 /\ mout.kind = "reset"
    /\ homeCache # NoCache /\ gameCache["g1"] # NoCache
    /\ mut = IdleMut

(***************************************************************************)
(* Claims about the admin reset.                                           *)
(***************************************************************************)
RECURSIVE publishedBefore(_)
\* The published records of the listing on the pages before page p.
publishedBefore(p) ==
    IF p <= 1 THEN 0 ELSE upstream[p - 1].published + publishedBefore(p - 1)

\* How many records of page p are among the first c published records.
seedShare(p, c) ==
    IF p < 1 \/ p > Len(upstream) \/ c <= publishedBefore(p) THEN 0
    ELSE IF c - publishedBefore(p) < upstream[p].published
         THEN c - publishedBefore(p) ELSE upstream[p].published

\* The games collection holds the first published records of the listing, at
\* most N of them, and nothing else: no record from before the wipe, and of
\* the records another writer stored only such as the seed stored as well.
OnlySeeded(store, N) ==
    /\ \A d \in store :
          /\ d.src \in {"seed", "sync"}
          /\ d.src = "seed" => d.n <= N /\ d.n <= publishedBefore(Len(upstream) + 1)
          /\ d.src = "sync" => d.n <= seedShare(d.page, N)
    /\ Cardinality({d \in store : d.src = "seed"}) <= 1

\* C28: when POST /api/admin/reset with target N answers 200, the games
\* collection contains only records seeded by this reset: at most N, each
\* published, from the first pages in upstream order, and none from before
\* the wipe.
C28_ResetLeavesOnlySeeded ==
    [][(rs.pc = "seed" /\ rs'.pc = "done") => OnlySeeded(gamesStore', rs.target)]_vars

(***************************************************************************)
(* Claims about the best-games pull.                                       *)
(***************************************************************************)
RECURSIVE Flatten(_)
Flatten(pages) == IF pages = <<>> THEN <<>> ELSE Head(pages) \o Flatten(Tail(pages))

\* The upstream games the pull may look at, in listing order.
Scanned(maxPages) ==
    Flatten(SubSeq(pullUpstream, 1, IF maxPages < Len(pullUpstream) THEN maxPages
                                    ELSE Len(pullUpstream)))

\* The positions of the published games that match a requested name.
MatchesOf(name, games) ==
    {i \in 1..Len(games) :
        /\ games[i].published \in PublishedTrue
        /\ fuzzyOk(keyName(games[i].name), keyName(name))}

RECURSIVE MatchedIds(_, _)
\* For each requested name that has a match, in the order of the names, the
\* id of its first match.
MatchedIds(names, games) ==
    IF names = <<>> THEN <<>>
    ELSE LET at == MatchesOf(Head(names), games)
         IN  (IF at = {} THEN <<>>
              ELSE <<games[CHOOSE i \in at : \A j \in at : i <= j].id>>)
                 \o MatchedIds(Tail(names), games)

C30_ExclusiveNeverEmpty ==
    (/\ rdout.cat = "exclusive" /\ rdout.run # 0
     /\ computed[rdout.run]["best"] # <<>>) => rdout.items # <<>>

(***************************************************************************)
(* Claims about the approve and decline callbacks.                         *)
(***************************************************************************)
\* The handler invocations of a chat that are fanning a draft out.
FanOuts(chat) ==
    {task \in PendingTasks : task.chat = chat /\ task.pc \in {"loadUsers", "deliver", "report"}}

\* C31: a confirmed draft is fanned out at most once. An approve_broadcast
\* callback that starts a fan-out finds the chat confirming and leaves it
\* idle in the same step, with the draft's payload taken along; one that
\* finds the chat not confirming, as a second approve does while the first
\* is awaiting its user list or a delivery, starts nothing.
C31_ApprovedDraftFannedOutOnce ==
    [][(lastUpdate'.kind = "callback" /\ lastUpdate'.data = "approve_broadcast"
            /\ lastUpdate'.chat \in ChatIds) =>
        LET chat == lastUpdate'.chat IN
        IF broadcastState[chat].step = "confirming" /\ isAdmin(chat)
        THEN /\ broadcastState'[chat] = IdleState
             /\ tasks' = tasks (+) SetToBag({Task("loadUsers", chat, broadcastState[chat].payload)})
        ELSE UNCHANGED <<broadcastState, tasks>>]_vars

C31_Witness ==
    /\ lastUpdate = [kind |-> "callback", chat |-> 1, data |-> "approve_broadcast"]
    /\ broadcastState[1] = IdleState
    /\ BagCardinality(tasks) = 1
    /\ \E task \in FanOuts(1) : task.pc = "deliver" /\ task.tried # <<>>

(***************************************************************************)
(* Claims about the lifecycle of the home computation and the circuit.     *)
(***************************************************************************)
\* C32: a home computation whose games query returned before a mutating
\* endpoint invalidated the home cache does not install its result after
\* that invalidation: when it settles, the home cache is left as it was.
C32_NoInstallAfterInvalidation ==
    [][\A c \in 1..MaxComps :
          (/\ c <= Len(comps) /\ comps[c].pc = "pinned" /\ comps[c].inv
           /\ comps'[c].pc = "settled") => homeCache' = homeCache]_vars

\* C33: homeInFlight is set exactly while a home computation is pending. It
\* names the one pending computation, every waiting request waits for a
\* pending computation (so a waiter's timeout clears nothing and a settled
\* computation, failed or not, leaves nothing behind), a request that
\* arrives with no fresh entry and a closed circuit is not answered on
\* arrival but awaits a computation, and a computation that succeeds
\* installs its result whether or not a waiter is left.
C33_InFlightWhilePending ==
    /\ [](/\ homeInFlight # 0 <=> PendingComps # {}
          /\ PendingComps \subseteq {homeInFlight}
          /\ \A r \in HomeReqs : hreq[r].pc = "waiting" => Pending(hreq[r].comp))
    /\ [][/\ \A r \in HomeReqs :
                (hreq[r].pc = "idle" /\ hout'.to = {r}) => (homeFresh \/ circuitOpen)
          /\ \A c \in 1..MaxComps :
                (/\ c <= Len(comps) /\ comps[c].pc = "pinned"
                 /\ comps'[c].pc = "settled" /\ hout'.resp.src = "computed")
                => homeCache' = [ts |-> now, data |-> comps[c].data, pre |-> FALSE]]_vars

\* The first computation failed on quota at time 0; after the cooldown a
\* second one was started, its only waiter timed out, and it has just
\* succeeded with nobody waiting.
C33_Witness ==
    /\ lastQuotaFailAt = 0 /\ Len(comps) = 2
    /\ hout.to = {} /\ hout.resp.src = "computed"
    /\ homeInFlight = 0
    /\ homeCache = [ts |-> now, data |-> hout.resp.data, pre |-> FALSE]

\* C34: the home circuit opens only on quota-classified errors. A home
\* computation that fails with another error, and a waiter's timeout, leave
\* homeCircuitUntil and homeCache as they were, and homeCircuitUntil changes
\* in no step but the failure of a pending computation on a quota error.
C34_CircuitOpensOnlyOnQuota ==
    [][/\ \A c \in 1..MaxComps :
            CompSettleFail(c, "UNAVAILABLE") => UNCHANGED <<homeCircuitUntil, homeCache>>
       /\ \A r \in HomeReqs :
            HomeTimeout(r) => UNCHANGED <<homeCircuitUntil, homeCache>>
       /\ homeCircuitUntil' # homeCircuitUntil =>
            \E c \in PendingComps : CompSettleFail(c, "RESOURCE_EXHAUSTED")]_vars

\* A computation started over an expired entry has just failed with
\* UNAVAILABLE: its waiter got 503, the entry is kept, the circuit is closed.
C34_Witness ==
    /\ hout.to # {} /\ hout.resp.st = 503 /\ hout.resp.err = "UNAVAILABLE"
    /\ homeCache # NoCache
    /\ homeCircuitUntil = 0 /\ lastQuotaFailAt = -1

\* The cooldown that followed the last quota failure is over.
CooldownElapsed ==
    /\ lastQuotaFailAt >= 0
    /\ now >= lastQuotaFailAt + 60 * 1000

\* C35: the circuit closes by itself. Once 60 s have passed since the last
\* quota failure, a GET /api/home request that finds no fresh entry is not
\* answered from the breaker: it awaits a pending computation, and when none
\* was pending it starts one with a storage read. Nothing has reset
\* homeCircuitUntil in between.
C35_CircuitClosesAfterCooldown ==
    [][\A r \in HomeReqs :
          (CooldownElapsed /\ ~homeFresh /\ HomeArrive(r)) =>
             /\ hout' = NoOut
             /\ hreq'[r].pc = "waiting"
             /\ comps'[hreq'[r].comp].pc \in {"games", "pinned"}
             /\ homeInFlight' = hreq'[r].comp
             /\ homeInFlight = 0 =>
                    /\ Len(comps') = Len(comps) + 1
                    /\ hreq'[r].comp = Len(comps')
                    /\ storageCalls' = storageCalls + 1
             /\ UNCHANGED homeCircuitUntil]_vars

\* After a quota failure at time 0 and 60 s of waiting, a request has
\* started the second computation; homeCircuitUntil still holds the end of
\* the cooldown.
C35_Witness ==
    /\ lastQuotaFailAt = 0 /\ now = 60 * 1000
    /\ homeCircuitUntil = 60 * 1000
    /\ Len(comps) = 2 /\ comps[2].pc = "games" /\ homeInFlight = 2
    /\ \E r \in HomeReqs : hreq[r] = [pc |-> "waiting", comp |-> 2, start |-> now]

(***************************************************************************)
(* Claims about the drafts of the broadcast bot and what reaches a fan-out. *)
(***************************************************************************)
\* C36: whenever an admin chat's draft is confirming, its payload has at
\* least one media kind set, and no fan-out, started by an approve_broadcast
\* callback at whatever moment, carries a payload with no deliverable kind
\* or counts a recipient as sent without a send.
C36_ConfirmingHasDeliverableKind ==
    /\ \A chat \in ChatIds :
          broadcastState[chat].step = "confirming" =>
              kindsSet(broadcastState[chat].payload) # {}
    /\ \A chat \in ChatIds : \A task \in FanOuts(chat) :
          /\ deliverKind(task.payload) # "none"
          /\ task.sent <= Len(task.tried)

\* C37: an approve_broadcast or decline_broadcast callback processed for a
\* chat that is not an admin chat, or whose draft is idle or
\* waiting_for_message, changes no draft, starts no handler that awaits (so
\* no user-list read and no delivery) and sends nothing; and a fan-out
\* starts in no step but an approve_broadcast of a confirming admin chat.
C37_CallbackOnlyFromConfirming ==
    [][/\ \A chat \in ChatIds \cup {NoChat} :
            (/\ lastUpdate'.kind = "callback" /\ lastUpdate'.chat = chat
             /\ lastUpdate'.data \in {"approve_broadcast", "decline_broadcast"}
             /\ \/ chat \notin ADMIN_USER_IDS
                \/ broadcastState[chat].step \in {"idle", "waiting_for_message"})
            => /\ UNCHANGED <<broadcastState, tasks, users>>
               /\ lastSend' = NoSend
       /\ \A chat \in ChatIds :
            (\E task \in FanOuts(chat)' : task.pc = "loadUsers" /\ task \notin FanOuts(chat))
            => /\ lastUpdate' = [kind |-> "callback", chat |-> chat, data |-> "approve_broadcast"]
               /\ chat \in ADMIN_USER_IDS
               /\ broadcastState[chat].step = "confirming"]_vars

\* The admin chat, prompted for its message, has pressed an old Approve
\* button: the draft is still awaited and nothing was started.
C37_Witness ==
    /\ lastUpdate = [kind |-> "callback", chat |-> 1, data |-> "approve_broadcast"]
    /\ broadcastState[1].step = "waiting_for_message"
    /\ tasks = EmptyBag /\ lastSend = NoSend

\* The handler invocations of a chat that hold a captured draft.
Captured(chat) ==
    {task \in PendingTasks : task.chat = chat /\ task.pc \in {"echo", "unsupported", "confirm"}}

\* C38: a /broadcast command of an admin chat leaves that chat
\* waiting_for_message with no payload, whatever its state was, and leaves
\* the other chats' drafts alone; and a command processed for a chat that is
\* waiting_for_message is not captured: the chat stays waiting_for_message
\* and no echo of the command is started.
C38_BroadcastRestartsDraft ==
    [][\A chat \in ADMIN_USER_IDS :
          (lastUpdate'.kind = "message" /\ lastUpdate'.chat = chat) =>
             /\ lastUpdate'.data = "/broadcast" =>
                   /\ broadcastState'[chat] = [step |-> "waiting_for_message", payload |-> NoPayload]
                   /\ \A other \in ChatIds \ {chat} : broadcastState'[other] = broadcastState[other]
             /\ (/\ lastUpdate'.data \in {"/broadcast", "/start"}
                 /\ broadcastState[chat].step = "waiting_for_message") =>
                   /\ broadcastState'[chat].step = "waiting_for_message"
                   /\ broadcastState'[chat].payload = NoPayload
                   /\ Captured(chat)' \subseteq Captured(chat)]_vars

\* Admin chat 1 has sent /broadcast while the confirm prompt of its captured
\* draft was still awaited: the draft is gone and the chat is prompted again.
C38_Witness ==
    /\ lastUpdate = [kind |-> "message", chat |-> 1, data |-> "/broadcast"]
    /\ broadcastState[1] = [step |-> "waiting_for_message", payload |-> NoPayload]
    /\ \E task \in Captured(1) : task.pc = "confirm" /\ task.payload # NoPayload
    /\ \E task \in PendingTasks : task.pc = "prompt" /\ task.chat = 1

(***************************************************************************)
(* Claims about the records the writers store.                             *)
(***************************************************************************)
\* C39: every game document written by runSync, by the seed or by the
\* best-games pull has published = true and enabled = true: the games
\* collection never holds a record with enabled false or with enabled
\* different from published, and no run holds such a record to write.
C39_StoredArePublishedAndEnabled ==
    /\ \A g \in pullStore : g.published = TRUE /\ g.enabled = TRUE
    /\ \A i \in 1..Len(wr.batch) : wr.batch[i].published = TRUE /\ wr.batch[i].enabled = TRUE
    /\ \A i \in 1..Len(pl.found) : pl.found[i].published = TRUE /\ pl.found[i].enabled = TRUE

\* The listing's first game is unpublished; a seed of three has stored the
\* two published games of both pages and a pull has stored and pinned one.
C39_Witness ==
    /\ pullUpstream # <<>> /\ ~publishedOf(pullUpstream[1][1].published)
    /\ wr.pc = "done" /\ wr.who = "seed" /\ wr.target = 3
    /\ pl.pc = "done" /\ pl.st = 200 /\ bestPinnedIds # <<"9">>
    /\ {g.id : g \in pullStore} = {"9", "2", "3"}

====
